---- MODULE Spec2Model ----
(***************************************************************************)
(* Payment-webhook reconciliation of the crypto billing service.          *)
(*                                                                         *)
(* The state is the content of the Invoice, Subscription and InviteCode   *)
(* tables, the requests received by the license authority, the wall clock *)
(* and, for every webhook delivery, the position of its handler run and   *)
(* the values of the handler's local variables.                           *)
(*                                                                         *)
(* A handler run is an async function: between two awaits it runs without *)
(* interruption and touches only its own locals.  Each action below is    *)
(* therefore one awaited operation (a storage call or the HTTP call to    *)
(* the license authority) together with the synchronous code that follows *)
(* it up to the next await or to the response.                            *)
(*                                                                         *)
(* Time is counted in days: Date values are naturals, one plan day is 1.  *)
(***************************************************************************)
EXTENDS Integers, FiniteSets, Sequences, TLC

\* ------------------------------------------------------------------ bounds
\* Webhook deliveries over the whole behaviour.
MaxDeliveries == 3
\* Handler runs that may be in flight at the same time.
MaxConcurrent == 2
\* Last instant of the wall clock.
MaxNow == 2
\* durationDays of the plan with a duration (30 in the seed data, scaled).
PlanDays == 2
\* Largest maxUses an admin gives to an invite code.
MaxUses == 2

\* ------------------------------------------------------------- null values
\* null of a Date column (startsAt, expiresAt, paidAt).
NoDate == -1
\* null of Plan.durationDays (a lifetime plan).
NoDuration == -1
\* null of Invoice.providerPaymentId / no invoice found.
None == 0
\* null of InviteCode.maxUses (unbounded).
NoLimit == -1
\* null of Subscription.licenseKey.
NoKey == "null"

\* The rows create-subscription made before the webhooks arrive: one
\* Subscription and its Invoice.
SubIds == {1}
InvoiceIds == {1}
Runs == 1..MaxConcurrent
Dates == 0..MaxNow

\* ------------------------------------------------------------------- plans
PlanCodes == {"pro_monthly", "lifetime"}

\* A plan row an operator may add next to the seeded ones: durationDays 0.
PlanInputs == PlanCodes \cup {"zero_days"}

durationDays(planCode) ==
    IF planCode = "lifetime" THEN NoDuration
    ELSE IF planCode = "zero_days" THEN 0
    ELSE PlanDays

\* ----------------------------------------------------------------- payload
SuccessStatuses == {"finished", "confirmed"}
FailureStatuses == {"failed", "expired", "refunded"}
IntermediateStatuses == {"waiting", "partially_paid"}
PaymentStatuses == SuccessStatuses \cup FailureStatuses \cup IntermediateStatuses

\* order_id of a payload: the id of an Invoice, the id of a Subscription (what
\* create-subscription hands to the gateway), or absent.
OrderIds ==
    {[ns |-> "absent", n |-> 0]}
        \cup [ns : {"invoice", "subscription"}, n : InvoiceIds]

\* payment_id of a payload: the gateway's id of the payment of an invoice, or
\* one the service never stored.
ForeignPaymentId == 99
PaymentIds == InvoiceIds \cup {ForeignPaymentId}

VARIABLES
    now,          \* the wall clock (new Date())
    invoices,     \* Invoice table
    subs,         \* Subscription table
    invites,      \* InviteCode table
    authority,    \* the license authority: the last upsert it received per subscription
    runs,         \* webhook handler runs in flight
    response,     \* the response sent since the last delivery arrived
    delivered,    \* number of webhook deliveries so far
    hist,         \* what the handler runs did so far, per invoice
    patch,        \* the admin PATCH /subscriptions/:id handler: its run in flight
                  \* and what its last run did
    ipn           \* the signature check of a webhook: the secret configured,
                  \* the header and the raw body received, and its result

vars == <<now, invoices, subs, invites, authority, runs, response, delivered, hist,
          patch, ipn>>

\* ------------------------------------------------- webhook classification
\* Mutant: a refund is taken for a success.
isSuccessful_withRefunded(paymentStatus) ==
    paymentStatus = "finished" \/ paymentStatus = "confirmed"
        \/ paymentStatus = "refunded"

isSuccessful(paymentStatus) ==
    paymentStatus = "finished" \/ paymentStatus = "confirmed"

\* Mutant: every status that is not a success is taken for a final failure.
isFinalFailure_anyUnsuccessful(paymentStatus) ==
    paymentStatus # "finished" /\ paymentStatus # "confirmed"

isFinalFailure(paymentStatus) ==
    paymentStatus = "failed" \/ paymentStatus = "expired"
        \/ paymentStatus = "refunded"

\* Mutant: the first idempotency gate is missing.
alreadyPaid_never(invoiceStatus, paymentStatus) == FALSE

\* Mutant: the gate knows "finished" only, a "confirmed" duplicate passes.
alreadyPaid_onlyFinished(invoiceStatus, paymentStatus) ==
    invoiceStatus = "paid" /\ paymentStatus = "finished"

\* The first idempotency gate: the loaded invoice is already paid.
alreadyPaid(invoiceStatus, paymentStatus) ==
    invoiceStatus = "paid" /\ isSuccessful(paymentStatus)

\* Mutant: the second gate looks at the subscription only.
alreadyActive_anyInvoice(subscriptionStatus, invoiceStatus) ==
    subscriptionStatus = "active"

\* The second idempotency gate, evaluated on the invoice object loaded at the
\* start of the run and on the subscription just loaded.
alreadyActive(subscriptionStatus, invoiceStatus) ==
    subscriptionStatus = "active" /\ invoiceStatus = "paid"

\* Mutant: every final failure cancels the invoice.
failureInvoiceStatus_alwaysCanceled(paymentStatus) == "canceled"

\* Invoice status written for a final failure.
failureInvoiceStatus(paymentStatus) ==
    IF paymentStatus = "expired" THEN "expired" ELSE "canceled"

\* Where the handler goes once the invoice is loaded: the awaited operation
\* it issues next, or the acknowledgement it returns.
routeAfterLookup(invoiceStatus, paymentStatus) ==
    IF alreadyPaid(invoiceStatus, paymentStatus) THEN "ackAlreadyProcessed"
    ELSE IF isSuccessful(paymentStatus) THEN "markPaid"
    ELSE IF isFinalFailure(paymentStatus) THEN "markFailed"
    ELSE "ackIntermediate"

\* Subscription status written after a successful payment.
subscriptionStatusAfterPayment(subscriptionStatus) ==
    IF subscriptionStatus = "pending_payment" THEN "active"
    ELSE IF subscriptionStatus = "active" THEN "active"
    ELSE "active"

\* ------------------------------------------------- expiration calculator
addDays(date, days) == date + days

\* Mutant: the first payment forgets to add the plan's duration.
computeSubscriptionExpiration_noDuration(planCode, currentStartsAt, currentExpiresAt, at) ==
    LET d == durationDays(planCode)
        timed == d # NoDuration /\ d # 0
    IN  IF currentStartsAt = NoDate
        THEN [startsAt |-> at, expiresAt |-> IF timed THEN at ELSE NoDate]
        ELSE IF currentExpiresAt # NoDate /\ currentExpiresAt > at
        THEN [startsAt |-> currentStartsAt,
              expiresAt |-> IF timed THEN addDays(currentExpiresAt, d) ELSE NoDate]
        ELSE [startsAt |-> at,
              expiresAt |-> IF timed THEN addDays(at, d) ELSE NoDate]

computeSubscriptionExpiration(planCode, currentStartsAt, currentExpiresAt, at) ==
    LET d == durationDays(planCode)
        timed == d # NoDuration /\ d # 0
    IN  IF currentStartsAt = NoDate
        THEN [startsAt |-> at,
              expiresAt |-> IF timed THEN addDays(at, d) ELSE NoDate]
        ELSE IF currentExpiresAt # NoDate /\ currentExpiresAt > at
        THEN [startsAt |-> currentStartsAt,
              expiresAt |-> IF timed THEN addDays(currentExpiresAt, d) ELSE NoDate]
        ELSE [startsAt |-> at,
              expiresAt |-> IF timed THEN addDays(at, d) ELSE NoDate]

\* ------------------------------------------------- license authority
\* What becomes of one upsert request: the client is not configured, the
\* request does not reach the authority, the authority answers non-2xx, 2xx
\* with a body that is no JSON, 2xx with a key, 2xx without a key.
AuthorityBehaviours ==
    {"config_missing", "network_error", "http_error", "ok_unparsable",
     "ok_with_key", "ok_without_key"}

\* The behaviours in which the authority receives the request.
Received == AuthorityBehaviours \ {"config_missing", "network_error"}

LicenseKeys == {"LK-A"}

\* createOrExtendLicense: throws on a missing configuration, a network error,
\* a non-2xx answer and a body that is no JSON, otherwise returns the key of
\* the answer, '' when the answer carries none.
createOrExtendLicense(behaviour, key) ==
    IF behaviour \in {"config_missing", "network_error", "http_error", "ok_unparsable"}
    THEN [threw |-> TRUE, licenseKey |-> NoKey]
    ELSE [threw |-> FALSE,
          licenseKey |-> IF behaviour = "ok_with_key" THEN key ELSE ""]

\* Mutant: the license catch is missing, the handler goes on as if the call
\* had answered.
routeAfterLicense_noCatch(threw) == "storeLicenseKey"

\* The try/catch around the license call.
routeAfterLicense(threw) ==
    IF threw THEN "markLicenseFailed" ELSE "storeLicenseKey"

\* ------------------------------------------------- storage
\* prisma update: the columns named in data are written, the others kept.
update(row, data) ==
    [f \in DOMAIN row |-> IF f \in DOMAIN data THEN data[f] ELSE row[f]]

getInvoiceByIdInternal(orderId) ==
    IF orderId.ns = "invoice" /\ orderId.n \in DOMAIN invoices
    THEN orderId.n ELSE None

\* Mutant: the filter is dropped (findFirst with an undefined where), the
\* first invoice of the table is returned.
getInvoiceByProviderPaymentId_anyInvoice(paymentId) ==
    IF DOMAIN invoices = {} THEN None
    ELSE CHOOSE i \in DOMAIN invoices : \A j \in DOMAIN invoices : i <= j

getInvoiceByProviderPaymentId(paymentId) ==
    LET found == {i \in DOMAIN invoices :
                      invoices[i].providerPaymentId = paymentId}
    IN  IF found = {} THEN None
        ELSE CHOOSE i \in found : \A j \in found : i <= j

\* ------------------------------------------------- handler runs
\* The locals of a handler run.
IdleRun ==
    [pc |-> "idle", paymentStatus |-> "", orderId |-> [ns |-> "absent", n |-> 0],
     paymentId |-> None, invoice |-> None, invStatus |-> "",
     subStatus |-> "", computedAt |-> NoDate,
     expStartsAt |-> NoDate, expExpiresAt |-> NoDate,
     license |-> "none", licenseKey |-> NoKey, dbError |-> FALSE,
     verified |-> FALSE]

InFlight(r) == runs[r].pc # "idle"

Quiescent == \A r \in Runs : ~InFlight(r)

\* No response yet to the delivery that arrived last.
NoResponse == [code |-> 0, msg |-> ""]

\* Mutant: the license failure is rethrown and answered 500.
Respond_licenseFailureRethrown(r, code, message) ==
    /\ runs' = [runs EXCEPT ![r] = IdleRun]
    /\ response' = [code |-> IF runs[r].license = "threw" THEN 500 ELSE code,
                    msg |-> message]

\* res.status(code).json(...): the run is over.
Respond(r, code, message) ==
    /\ runs' = [runs EXCEPT ![r] = IdleRun]
    /\ response' = [code |-> code, msg |-> message]

\* Per invoice: transitions of its status to paid, writes of the owning
\* subscription's window, invocations of createOrExtendLicense on its behalf,
\* whether a payload other than a success one was handled for it, and whether
\* a success payload for it was answered 200.
NoHistory ==
    [paid |-> 0, windows |-> 0, calls |-> 0, activations |-> 0,
     otherStatus |-> FALSE, successAcked |-> FALSE]

\* The locals of the admin PATCH handler (pc, id, body, data, params,
\* request) and, kept after the answer, what its last run did: calls of
\* updateLicenseFromSubscription, requests it sent, how the call ended and
\* what had become of the request.
NoFields == [f \in {} |-> 0]

\* A body without any field.
NoBody ==
    [status |-> [kind |-> "undefined", v |-> ""],
     expiresAt |-> [kind |-> "undefined", d |-> NoDate],
     addDays |-> [kind |-> "undefined", n |-> 0],
     inviteCode |-> [kind |-> "undefined",
                     code |-> [text |-> "", padded |-> FALSE, upper |-> FALSE]],
     maxRequests |-> [kind |-> "undefined", n |-> 0]]

IdlePatch ==
    [pc |-> "idle", id |-> None, body |-> NoBody, data |-> NoFields,
     params |-> NoFields, request |-> NoFields,
     calls |-> 0, sent |-> 0, sync |-> "none", answer |-> "none"]

\* No signature check on record.
NoCheck == [pc |-> "idle"]

Init ==
    /\ now = 0
    /\ invoices \in
         {f \in [InvoiceIds ->
                   [subscriptionId : SubIds, status : {"pending"},
                    paidAt : {NoDate}, providerPaymentId : InvoiceIds \cup {None}]] :
             \A i \in InvoiceIds :
                 /\ f[i].subscriptionId = i
                 /\ f[i].providerPaymentId \in {i, None}}
    /\ subs \in
         [SubIds ->
            [status : {"pending_payment"}, startsAt : {NoDate},
             expiresAt : {NoDate}, licenseKey : {NoKey},
             planCode : PlanCodes, inviteCode : {"alpha"}]]
    /\ invites =
         [c \in {"alpha"} |->
            [status |-> "ACTIVE", maxUses |-> NoLimit, usedCount |-> 0,
             expiresAt |-> NoDate]]
    /\ authority = [s \in SubIds |-> [startsAt |-> NoDate, expiresAt |-> NoDate]]
    /\ runs = [r \in Runs |-> IdleRun]
    /\ response = NoResponse
    /\ delivered = 0
    /\ hist = [i \in InvoiceIds |-> NoHistory]
    /\ patch = IdlePatch
    /\ ipn = NoCheck

\* ------------------------------------------------- the webhook handler
\* The handler goes on with a delivery: its locals are set from the payload
\* and the first lookup is issued.
Accept(r, verified, orderId, paymentId, paymentStatus) ==
    /\ runs' = [runs EXCEPT ![r] =
           [IdleRun EXCEPT
               !.pc = IF orderId.ns # "absent" THEN "lookupById"
                      ELSE "lookupByPaymentId",
               !.paymentStatus = paymentStatus,
               !.orderId = orderId,
               !.paymentId = paymentId,
               !.verified = verified]]
    /\ response' = NoResponse

\* Mutant: the result of the signature check is not looked at.
Deliver_signatureIgnored(r, verified, orderId, paymentId, paymentStatus) ==
    /\ ~InFlight(r)
    /\ \A q \in Runs : q < r => InFlight(q)
    /\ delivered < MaxDeliveries
    /\ delivered' = delivered + 1
    /\ Accept(r, verified, orderId, paymentId, paymentStatus)
    /\ UNCHANGED <<now, invoices, subs, invites, authority, hist, patch, ipn>>

\* A delivery arrives: the synchronous head of the handler (raw body,
\* signature, JSON, required fields).  It takes the lowest free slot.
Deliver(r, verified, orderId, paymentId, paymentStatus) ==
    /\ ~InFlight(r)
    /\ \A q \in Runs : q < r => InFlight(q)
    /\ delivered < MaxDeliveries
    /\ delivered' = delivered + 1
    /\ IF ~verified
       THEN Respond(r, 401, "Invalid signature")
       ELSE Accept(r, verified, orderId, paymentId, paymentStatus)
    /\ UNCHANGED <<now, invoices, subs, invites, authority, hist, patch, ipn>>

\* The invoice is loaded: its status is read once, here, into the run's
\* invoice object, and the handler decides what to await next.
Loaded(r, i) ==
    LET status == invoices[i].status
        route == routeAfterLookup(status, runs[r].paymentStatus)
    IN  /\ CASE route = "ackAlreadyProcessed" -> Respond(r, 200, "Already processed")
              [] route = "ackIntermediate" -> Respond(r, 200, "Status")
              [] OTHER ->
                   /\ runs' = [runs EXCEPT ![r] =
                          [@ EXCEPT !.pc = route, !.invoice = i, !.invStatus = status,
                                    !.orderId = IdleRun.orderId, !.paymentId = None]]
                   /\ UNCHANGED response
        /\ hist' = [hist EXCEPT ![i] =
               [@ EXCEPT !.otherStatus = @ \/ ~isSuccessful(runs[r].paymentStatus),
                         !.successAcked = @ \/ route = "ackAlreadyProcessed"]]

LookupById(r) ==
    /\ runs[r].pc = "lookupById"
    /\ LET i == getInvoiceByIdInternal(runs[r].orderId)
       IN  IF i # None
           THEN Loaded(r, i)
           ELSE /\ runs' = [runs EXCEPT ![r] =
                       [@ EXCEPT !.pc = "lookupByPaymentId",
                                 !.orderId = IdleRun.orderId]]
                /\ UNCHANGED <<response, hist>>
    /\ UNCHANGED <<now, invoices, subs, invites, authority, delivered, patch, ipn>>

LookupByPaymentId(r) ==
    /\ runs[r].pc = "lookupByPaymentId"
    /\ LET i == getInvoiceByProviderPaymentId(runs[r].paymentId)
       IN  IF i # None
           THEN Loaded(r, i)
           ELSE /\ Respond(r, 200, "Invoice not found")
                /\ UNCHANGED hist
    /\ UNCHANGED <<now, invoices, subs, invites, authority, delivered, patch, ipn>>

MarkPaid(r) ==
    /\ runs[r].pc = "markPaid"
    /\ LET i == runs[r].invoice
       IN  /\ invoices' = [invoices EXCEPT ![i] =
                  update(@, [status |-> "paid", paidAt |-> now])]
           /\ hist' = [hist EXCEPT ![i].paid =
                  IF invoices[i].status # "paid" THEN @ + 1 ELSE @]
    /\ runs' = [runs EXCEPT ![r].pc = "getSubscription"]
    /\ UNCHANGED <<now, subs, invites, authority, response, delivered, patch, ipn>>

MarkFailed(r) ==
    /\ runs[r].pc = "markFailed"
    /\ LET i == runs[r].invoice
       IN  invoices' = [invoices EXCEPT ![i] =
               update(@, [status |-> failureInvoiceStatus(runs[r].paymentStatus)])]
    /\ Respond(r, 200, "Payment failed")
    /\ UNCHANGED <<now, subs, invites, authority, delivered, hist, patch, ipn>>

GetSubscription(r) ==
    /\ runs[r].pc = "getSubscription"
    /\ LET i == runs[r].invoice
           subscription == subs[invoices[i].subscriptionId]
           expiration == computeSubscriptionExpiration(
                             subscription.planCode, subscription.startsAt,
                             subscription.expiresAt, now)
       IN  IF alreadyActive(subscription.status, runs[r].invStatus)
           THEN /\ Respond(r, 200, "Already processed")
                /\ hist' = [hist EXCEPT ![i].successAcked = TRUE]
           ELSE /\ runs' = [runs EXCEPT ![r] =
                       [@ EXCEPT !.pc = "updateSubscription",
                                 !.subStatus = subscription.status,
                                 !.computedAt = now,
                                 !.expStartsAt = expiration.startsAt,
                                 !.expExpiresAt = expiration.expiresAt]]
                /\ UNCHANGED <<response, hist>>
    /\ UNCHANGED <<now, invoices, subs, invites, authority, delivered, patch, ipn>>

\* Mutant: every write of the subscription's window also consumes one use of
\* the linked invite code.
UpdateSubscription_consumesInvite(r) ==
    /\ runs[r].pc = "updateSubscription"
    /\ LET i == runs[r].invoice
           s == invoices[i].subscriptionId
           c == subs[s].inviteCode
       IN  /\ subs' = [subs EXCEPT ![s] =
                  update(@, [status |-> subscriptionStatusAfterPayment(runs[r].subStatus),
                             startsAt |-> runs[r].expStartsAt,
                             expiresAt |-> runs[r].expExpiresAt])]
           /\ invites' = [invites EXCEPT ![c].usedCount = @ + 1]
           /\ hist' = [hist EXCEPT ![i] =
                  [@ EXCEPT !.windows = @ + 1,
                            !.activations =
                                IF subs[s].status # "active" /\ subs'[s].status = "active"
                                THEN @ + 1 ELSE @]]
    /\ runs' = [runs EXCEPT ![r].pc = "createOrExtend"]
    /\ UNCHANGED <<now, invoices, authority, response, delivered, patch, ipn>>

UpdateSubscription(r) ==
    /\ runs[r].pc = "updateSubscription"
    /\ LET i == runs[r].invoice
           s == invoices[i].subscriptionId
       IN  /\ subs' = [subs EXCEPT ![s] =
                  update(@, [status |-> subscriptionStatusAfterPayment(runs[r].subStatus),
                             startsAt |-> runs[r].expStartsAt,
                             expiresAt |-> runs[r].expExpiresAt])]
           /\ hist' = [hist EXCEPT ![i] =
                  [@ EXCEPT !.windows = @ + 1,
                            !.activations =
                                IF subs[s].status # "active" /\ subs'[s].status = "active"
                                THEN @ + 1 ELSE @]]
    /\ runs' = [runs EXCEPT ![r].pc = "createOrExtend"]
    /\ UNCHANGED <<now, invoices, invites, authority, response, delivered, patch, ipn>>

\* The HTTP call to the license authority and what the authority answers.
CreateOrExtend(r, behaviour, key) ==
    /\ runs[r].pc = "createOrExtend"
    /\ LET i == runs[r].invoice
           s == invoices[i].subscriptionId
           result == createOrExtendLicense(behaviour, key)
       IN  /\ authority' = [authority EXCEPT ![s] =
                  IF behaviour \notin Received THEN @
                  ELSE [startsAt |-> runs[r].expStartsAt,
                        expiresAt |-> runs[r].expExpiresAt]]
           /\ hist' = [hist EXCEPT ![i].calls = @ + 1]
           /\ runs' = [runs EXCEPT ![r] =
                  [@ EXCEPT !.pc = routeAfterLicense(result.threw),
                            !.license = IF result.threw THEN "threw" ELSE "ok",
                            !.licenseKey = result.licenseKey]]
    /\ UNCHANGED <<now, invoices, subs, invites, response, delivered, patch, ipn>>

\* The request is sent and no answer ever comes: fetch is called without a
\* signal or a timer, its promise stays pending and the run stays at the
\* await.
CreateOrExtendHangs(r) ==
    /\ runs[r].pc = "createOrExtend"
    /\ hist' = [hist EXCEPT ![runs[r].invoice].calls = @ + 1]
    /\ runs' = [runs EXCEPT ![r].pc = "licensePending"]
    /\ UNCHANGED <<now, invoices, subs, invites, authority, response, delivered, patch, ipn>>

StoreLicenseKey(r) ==
    /\ runs[r].pc = "storeLicenseKey"
    /\ LET i == runs[r].invoice
           s == invoices[i].subscriptionId
       IN  /\ subs' = [subs EXCEPT ![s] =
                  update(@, [licenseKey |-> runs[r].licenseKey])]
           /\ hist' = [hist EXCEPT ![i].successAcked = TRUE]
    /\ Respond(r, 200, "ok")
    /\ UNCHANGED <<now, invoices, invites, authority, delivered, patch, ipn>>

MarkLicenseFailed(r) ==
    /\ runs[r].pc = "markLicenseFailed"
    /\ LET i == runs[r].invoice
           s == invoices[i].subscriptionId
       IN  /\ subs' = [subs EXCEPT ![s] =
                  update(@, [status |-> "payment_received_but_license_failed"])]
           /\ hist' = [hist EXCEPT ![i].successAcked = TRUE]
    /\ Respond(r, 200, "ok")
    /\ UNCHANGED <<now, invoices, invites, authority, delivered, patch, ipn>>

\* A storage call rejects.  Inside the license try block the rejection is
\* caught by the license catch; everywhere else it reaches the handler's
\* outer catch and the error middleware answers 500.
StorageSteps ==
    {"lookupById", "lookupByPaymentId", "markPaid", "markFailed",
     "getSubscription", "updateSubscription", "storeLicenseKey",
     "markLicenseFailed"}

StorageError(r) ==
    /\ runs[r].pc \in StorageSteps
    /\ IF runs[r].pc = "storeLicenseKey"
       THEN /\ runs' = [runs EXCEPT ![r] =
                   [@ EXCEPT !.pc = "markLicenseFailed", !.dbError = TRUE]]
            /\ UNCHANGED response
       ELSE Respond(r, 500, "Internal server error")
    /\ UNCHANGED <<now, invoices, subs, invites, authority, delivered, hist, patch, ipn>>

Tick ==
    /\ now < MaxNow
    /\ now' = now + 1
    /\ UNCHANGED <<invoices, subs, invites, authority, runs, response, delivered, hist,
                 patch, ipn>>

Step(r) ==
    \/ LookupById(r)
    \/ LookupByPaymentId(r)
    \/ MarkPaid(r)
    \/ MarkFailed(r)
    \/ GetSubscription(r)
    \/ UpdateSubscription(r)
    \/ \E b \in AuthorityBehaviours, k \in LicenseKeys : CreateOrExtend(r, b, k)
    \/ CreateOrExtendHangs(r)
    \/ StoreLicenseKey(r)
    \/ MarkLicenseFailed(r)
    \/ StorageError(r)

Arrive(r) ==
    \E verified \in BOOLEAN, o \in OrderIds, p \in PaymentIds, ps \in PaymentStatuses :
        Deliver(r, verified, o, p, ps)

\* One delivery at a time: the gateway sends the next webhook after the
\* previous one was answered.
Next ==
    \/ \E r \in Runs : Quiescent /\ Arrive(r)
    \/ \E r \in Runs : Step(r)
    \/ Tick

Spec == Init /\ [][Next]_vars

\* Deliveries overlap, all within one day.
NextRace ==
    \/ \E r \in Runs : Arrive(r)
    \/ \E r \in Runs : Step(r)

SpecRace == Init /\ [][NextRace]_vars

\* Success webhooks only, overlapping, while the clock advances: the gateway
\* redelivers a success event before the first delivery is answered.
ArriveSuccess(r) ==
    \E o \in OrderIds, p \in PaymentIds, ps \in SuccessStatuses :
        Deliver(r, TRUE, o, p, ps)

StepSuccess(r) ==
    \/ LookupById(r)
    \/ LookupByPaymentId(r)
    \/ MarkPaid(r)
    \/ GetSubscription(r)
    \/ UpdateSubscription(r)
    \/ \E b \in AuthorityBehaviours, k \in LicenseKeys : CreateOrExtend(r, b, k)
    \/ StoreLicenseKey(r)
    \/ MarkLicenseFailed(r)
    \/ StorageError(r)

NextRenewal ==
    \/ \E r \in Runs : ArriveSuccess(r)
    \/ \E r \in Runs : StepSuccess(r)
    \/ Tick

SpecRenewal == Init /\ [][NextRenewal]_vars

\* ================================================================ invite codes
\* A code as typed by a client: its text, whether it carries surrounding
\* blanks and whether it is typed in upper case.
InviteCodeInputs ==
    {[text |-> "alpha", padded |-> FALSE, upper |-> FALSE],
     [text |-> "alpha", padded |-> TRUE, upper |-> TRUE],
     [text |-> "ghost", padded |-> FALSE, upper |-> FALSE],
     [text |-> "", padded |-> TRUE, upper |-> FALSE],
     [text |-> "", padded |-> FALSE, upper |-> FALSE]}

\* code.trim().toLowerCase()
normalize(code) == [text |-> code.text, padded |-> FALSE, upper |-> FALSE]

\* !code of the raw string: only the empty string is falsy.
isEmptyString(code) == code.text = "" /\ ~code.padded

NoInvite == ""

\* prisma.inviteCode.findUnique({where: {code}}): codes are stored normalized.
findUniqueInviteCode(code) ==
    IF ~code.padded /\ ~code.upper /\ code.text \in DOMAIN invites
    THEN code.text ELSE NoInvite

InviteCodeStatuses == {"ACTIVE", "PAUSED", "EXPIRED"}

\* Mutant: the usage limit is checked before the expiration.
validateInviteCodeOrThrow_limitFirst(code, at) ==
    LET normalized == normalize(code)
        c == findUniqueInviteCode(normalized)
    IN  IF normalized.text = "" \/ c = NoInvite
        THEN [threw |-> TRUE, code |-> "NOT_FOUND", invite |-> NoInvite]
        ELSE IF invites[c].status # "ACTIVE"
        THEN [threw |-> TRUE, code |-> "NOT_ACTIVE", invite |-> NoInvite]
        ELSE IF invites[c].maxUses # NoLimit /\ invites[c].usedCount >= invites[c].maxUses
        THEN [threw |-> TRUE, code |-> "LIMIT_REACHED", invite |-> NoInvite]
        ELSE IF invites[c].expiresAt # NoDate /\ invites[c].expiresAt < at
        THEN [threw |-> TRUE, code |-> "EXPIRED", invite |-> NoInvite]
        ELSE [threw |-> FALSE, code |-> "", invite |-> c]

validateInviteCodeOrThrow(code, at) ==
    LET normalized == normalize(code)
        c == findUniqueInviteCode(normalized)
    IN  IF normalized.text = "" \/ c = NoInvite
        THEN [threw |-> TRUE, code |-> "NOT_FOUND", invite |-> NoInvite]
        ELSE IF invites[c].status # "ACTIVE"
        THEN [threw |-> TRUE, code |-> "NOT_ACTIVE", invite |-> NoInvite]
        ELSE IF invites[c].expiresAt # NoDate /\ invites[c].expiresAt < at
        THEN [threw |-> TRUE, code |-> "EXPIRED", invite |-> NoInvite]
        ELSE IF invites[c].maxUses # NoLimit /\ invites[c].usedCount >= invites[c].maxUses
        THEN [threw |-> TRUE, code |-> "LIMIT_REACHED", invite |-> NoInvite]
        ELSE [threw |-> FALSE, code |-> "", invite |-> c]

\* A request other than a webhook is received: requests are counted with the
\* deliveries.
Request ==
    /\ delivered < MaxDeliveries
    /\ delivered' = delivered + 1

\* Mutant: a successful validation consumes one use of the code.
ValidateInvite_consumesUse(code, dbOk) ==
    /\ Request
    /\ LET v == validateInviteCodeOrThrow(code, now)
       IN  /\ response' =
                  IF isEmptyString(code)
                  THEN [code |-> 400, msg |-> "Invite code is required"]
                  ELSE IF ~dbOk THEN [code |-> 500, msg |-> "Internal server error"]
                  ELSE IF v.threw THEN [code |-> 400, msg |-> v.code]
                  ELSE [code |-> 200, msg |-> "valid"]
           /\ invites' =
                  IF ~isEmptyString(code) /\ dbOk /\ ~v.threw
                  THEN [invites EXCEPT ![v.invite].usedCount = @ + 1]
                  ELSE invites
    /\ UNCHANGED <<now, invoices, subs, authority, runs, hist, patch, ipn>>

\* POST /api/invite/validate
ValidateInvite(code, dbOk) ==
    /\ Request
    /\ LET v == validateInviteCodeOrThrow(code, now)
       IN  response' =
               IF isEmptyString(code)
               THEN [code |-> 400, msg |-> "Invite code is required"]
               ELSE IF ~dbOk THEN [code |-> 500, msg |-> "Internal server error"]
               ELSE IF v.threw THEN [code |-> 400, msg |-> v.code]
               ELSE [code |-> 200, msg |-> "valid"]
    /\ UNCHANGED <<now, invoices, subs, invites, authority, runs, hist, patch, ipn>>

\* status of a PATCH body: absent, or a string in any case.
StatusInputs == {"undefined", "ACTIVE", "paused", "EXPIRED", "revoked"}

toUpperCase(status) ==
    CASE status = "paused" -> "PAUSED"
      [] status = "revoked" -> "REVOKED"
      [] OTHER -> status

statusRejected(status) ==
    status # "undefined" /\ toUpperCase(status) \notin InviteCodeStatuses

\* maxUses of a PATCH body: absent, null, or a number (-1 stands for null in
\* the table and is left out of the numbers).
MaxUsesInputs ==
    {[kind |-> "undefined", n |-> 0], [kind |-> "null", n |-> 0]}
        \cup [kind : {"number"}, n : ((0 - 2)..MaxUses) \ {NoLimit}]

\* Mutant: the range check of maxUses is missing.
maxUsesRejected_never(maxUses) == FALSE

maxUsesRejected(maxUses) == maxUses.kind = "number" /\ maxUses.n < 1

\* updateData of the PATCH handler.
updateData(status, maxUses) ==
    LET withStatus == IF status = "undefined" THEN [n \in {} |-> 0]
                      ELSE [n \in {"status"} |-> toUpperCase(status)]
    IN  IF maxUses.kind = "undefined" THEN withStatus
        ELSE [f \in DOMAIN withStatus \cup {"maxUses"} |->
                 IF f = "maxUses"
                 THEN (IF maxUses.kind = "null" THEN NoLimit ELSE maxUses.n)
                 ELSE withStatus[f]]

\* PATCH /api/admin/invite-codes/:id
PatchInviteCode(id, status, maxUses) ==
    /\ Request
    /\ IF id \notin DOMAIN invites
       THEN /\ response' = [code |-> 404, msg |-> "Invite code not found"]
            /\ UNCHANGED invites
       ELSE IF statusRejected(status)
       THEN /\ response' = [code |-> 400, msg |-> "Invalid status"]
            /\ UNCHANGED invites
       ELSE IF maxUsesRejected(maxUses)
       THEN /\ response' = [code |-> 400, msg |-> "maxUses must be a positive integer or null"]
            /\ UNCHANGED invites
       ELSE /\ invites' = [invites EXCEPT ![id] = update(@, updateData(status, maxUses))]
            /\ response' = [code |-> 200, msg |-> "updated"]
    /\ UNCHANGED <<now, invoices, subs, authority, runs, hist, patch, ipn>>

\* planCode of a create-subscription body: a seeded plan or a code no plan has.
PlanCodeInputs == PlanCodes \cup {"unknown"}

NoPlan == ""

\* prisma.plan.findUnique({where: {code}})
getPlanByCode(planCode) == IF planCode \in PlanCodes THEN planCode ELSE NoPlan

\* successRedirectUrl / cancelRedirectUrl of a body: absent, a URL, a string
\* that does not start with "http", and one that does but is no URL.
RedirectInputs == {"absent", "https://ok", "ftp://x", "http-unparsable"}

startsWithHttp(url) == url \in {"https://ok", "http-unparsable"}

\* new URL(url) throws.
unparsableUrl(url) == url = "http-unparsable"

\* The rest of a create-subscription body: whether planCode, userEmail and
\* productCode are all there, whether userEmail matches the e-mail pattern,
\* and the redirect URL.
SubscriptionForms ==
    {[required |-> TRUE, email |-> TRUE, redirect |-> "absent"],
     [required |-> TRUE, email |-> TRUE, redirect |-> "https://ok"],
     [required |-> FALSE, email |-> TRUE, redirect |-> "absent"],
     [required |-> TRUE, email |-> FALSE, redirect |-> "absent"],
     [required |-> TRUE, email |-> TRUE, redirect |-> "ftp://x"],
     [required |-> TRUE, email |-> TRUE, redirect |-> "http-unparsable"]}

\* Mutant: the outcome of the invite validation is not looked at.
createSubscriptionRejection_inviteUnchecked(form, code, planCode, v) ==
    IF ~form.required
    THEN [code |-> 400, msg |-> "Missing required fields"]
    ELSE IF isEmptyString(code)
    THEN [code |-> 400, msg |-> "Invite / referral code is required"]
    ELSE IF ~form.email
    THEN [code |-> 400, msg |-> "Invalid email format"]
    ELSE IF form.redirect # "absent" /\ ~startsWithHttp(form.redirect)
    THEN [code |-> 400, msg |-> "redirect URL must be a valid HTTP(S) URL"]
    ELSE IF getPlanByCode(planCode) = NoPlan
    THEN [code |-> 404, msg |-> "Plan not found"]
    ELSE NoResponse

\* The checks create-subscription makes before it creates anything, in the
\* order it makes them: the error it answers, or NoResponse when all pass.
\* v is what validateInviteCodeOrThrow did.
createSubscriptionRejection(form, code, planCode, v) ==
    IF ~form.required
    THEN [code |-> 400, msg |-> "Missing required fields"]
    ELSE IF isEmptyString(code)
    THEN [code |-> 400, msg |-> "Invite / referral code is required"]
    ELSE IF v.threw
    THEN [code |-> 400, msg |-> "Invite code rejected"]
    ELSE IF ~form.email
    THEN [code |-> 400, msg |-> "Invalid email format"]
    ELSE IF form.redirect # "absent" /\ ~startsWithHttp(form.redirect)
    THEN [code |-> 400, msg |-> "redirect URL must be a valid HTTP(S) URL"]
    ELSE IF getPlanByCode(planCode) = NoPlan
    THEN [code |-> 404, msg |-> "Plan not found"]
    ELSE NoResponse

\* POST /api/billing/create-subscription: the body and the invite code are
\* validated, then the Subscription and its Invoice are created and the
\* payment is asked from the gateway, whose id is stored when it answers.  A
\* redirect URL that cannot be parsed makes the payment step throw; the
\* failure is logged and the rows stay without a payment id.
CreateSubscription(form, code, planCode, paymentCreated) ==
    /\ Request
    /\ LET v == validateInviteCodeOrThrow(code, now)
           rejection == createSubscriptionRejection(form, code, planCode, v)
       IN  /\ rejection # NoResponse \/ DOMAIN subs = {}
           /\ IF rejection # NoResponse
              THEN /\ response' = rejection
                   /\ UNCHANGED <<invoices, subs>>
              ELSE /\ subs' = [s \in SubIds |->
                          [status |-> "pending_payment", startsAt |-> NoDate,
                           expiresAt |-> NoDate, licenseKey |-> NoKey,
                           planCode |-> getPlanByCode(planCode),
                           inviteCode |-> v.invite]]
                   /\ invoices' = [i \in InvoiceIds |->
                          [subscriptionId |-> i, status |-> "pending",
                           paidAt |-> NoDate,
                           providerPaymentId |->
                               IF paymentCreated /\ ~unparsableUrl(form.redirect)
                               THEN i ELSE None]]
                   /\ response' = [code |-> 201, msg |-> "created"]
    /\ UNCHANGED <<now, invites, authority, runs, hist, patch, ipn>>

\* No subscription yet; one invite code without an expiration, as the admin
\* route creates it.
InitInvite ==
    /\ now = 0
    /\ invoices = [i \in {} |-> 0]
    /\ subs = [s \in {} |-> 0]
    /\ invites \in
         [{"alpha"} ->
            [status : {"ACTIVE"}, maxUses : {NoLimit} \cup 1..MaxUses,
             usedCount : {0}, expiresAt : {NoDate}]]
    /\ authority = [s \in SubIds |-> [startsAt |-> NoDate, expiresAt |-> NoDate]]
    /\ runs = [r \in Runs |-> IdleRun]
    /\ response = NoResponse
    /\ delivered = 0
    /\ hist = [i \in InvoiceIds |-> NoHistory]
    /\ patch = IdlePatch
    /\ ipn = NoCheck

\* Requests are handled one at a time, all within one day.
NextInvite ==
    \/ \E code \in InviteCodeInputs, dbOk \in BOOLEAN :
           Quiescent /\ ValidateInvite(code, dbOk)
    \/ \E id \in {"alpha", "ghost"}, status \in StatusInputs, maxUses \in MaxUsesInputs :
           Quiescent /\ PatchInviteCode(id, status, maxUses)
    \/ \E form \in SubscriptionForms, code \in InviteCodeInputs,
          planCode \in PlanCodeInputs, paymentCreated \in BOOLEAN :
           Quiescent /\ CreateSubscription(form, code, planCode, paymentCreated)
    \/ \E r \in Runs : Quiescent /\ Arrive(r)
    \/ \E r \in Runs : Step(r)

SpecInvite == InitInvite /\ [][NextInvite]_vars

\* Any invite row, for the validation taken as a function of the row, the
\* code and the clock.
InitValidate ==
    /\ now = 0
    /\ invoices = [i \in {} |-> 0]
    /\ subs = [s \in {} |-> 0]
    /\ invites \in
         [{"alpha"} ->
            [status : InviteCodeStatuses, maxUses : {NoLimit} \cup 1..MaxUses,
             usedCount : 0..MaxUses, expiresAt : {NoDate} \cup Dates]]
    /\ authority = [s \in SubIds |-> [startsAt |-> NoDate, expiresAt |-> NoDate]]
    /\ runs = [r \in Runs |-> IdleRun]
    /\ response = NoResponse
    /\ delivered = 0
    /\ hist = [i \in InvoiceIds |-> NoHistory]
    /\ patch = IdlePatch
    /\ ipn = NoCheck

NextValidate ==
    \/ \E code \in InviteCodeInputs, dbOk \in BOOLEAN : ValidateInvite(code, dbOk)
    \/ Tick

SpecValidate == InitValidate /\ [][NextValidate]_vars

\* ================================================================ admin subscriptions
\* Largest addDays an admin sends.
MaxAddDays == 1
\* Admin PATCH requests over the whole behaviour.
MaxPatches == 1

\* The fields of a PATCH /subscriptions/:id body.  Each is absent
\* (undefined) or carries a value of some JSON type.
StatusFieldInputs ==
    {[kind |-> "undefined", v |-> ""],
     [kind |-> "string", v |-> "paused"],
     [kind |-> "number", v |-> "42"]}

\* expiresAt: absent, an ISO date, or a string new Date() cannot parse.
ExpiresAtInputs ==
    {[kind |-> "undefined", d |-> NoDate], [kind |-> "garbage", d |-> NoDate]}
        \cup [kind : {"date"}, d : {0, MaxNow}]

\* addDays: absent, a number, or a number typed as a string.
AddDaysInputs ==
    {[kind |-> "undefined", n |-> 0], [kind |-> "string", n |-> 1]}
        \cup [kind : {"number"}, n : 0..MaxAddDays]

\* inviteCode: absent, null, or a typed code.
InviteFieldInputs ==
    {[kind |-> "undefined", code |-> [text |-> "", padded |-> FALSE, upper |-> FALSE]],
     [kind |-> "null", code |-> [text |-> "", padded |-> FALSE, upper |-> FALSE]]}
        \cup [kind : {"string"}, code : InviteCodeInputs]

MaxRequestsInputs ==
    {[kind |-> "undefined", n |-> 0], [kind |-> "null", n |-> 0],
     [kind |-> "number", n |-> 5]}

PatchBodies ==
    [status : StatusFieldInputs, expiresAt : ExpiresAtInputs,
     addDays : AddDaysInputs, inviteCode : InviteFieldInputs,
     maxRequests : MaxRequestsInputs]

\* The fields a body carries (!== undefined).
provided(body) == {f \in DOMAIN body : body[f].kind # "undefined"}

\* "At least one field" as the handler tests it.
atLeastOneField(body) ==
    ~( /\ body.status.kind = "undefined"
       /\ body.expiresAt.kind = "undefined"
       /\ body.addDays.kind = "undefined"
       /\ body.inviteCode.kind = "undefined" )

\* Mutant: an explicit expiresAt wins over addDays.
patchExpiresAt_explicitFirst(existingExpiresAt, expiresAt, extension, at) ==
    IF expiresAt.kind = "date"
    THEN [rejected |-> FALSE, set |-> TRUE, value |-> expiresAt.d]
    ELSE IF expiresAt.kind = "garbage"
    THEN [rejected |-> TRUE, set |-> FALSE, value |-> NoDate]
    ELSE IF extension.kind = "number" /\ extension.n # 0
    THEN [rejected |-> FALSE, set |-> TRUE,
          value |-> addDays(IF existingExpiresAt # NoDate THEN existingExpiresAt ELSE at,
                            extension.n)]
    ELSE [rejected |-> FALSE, set |-> FALSE, value |-> NoDate]

\* data.expiresAt of the handler: whether the request is rejected, whether
\* the column is written, and with what.
patchExpiresAt(existingExpiresAt, expiresAt, extension, at) ==
    IF extension.kind = "number" /\ extension.n # 0
    THEN [rejected |-> FALSE, set |-> TRUE,
          value |-> addDays(IF existingExpiresAt # NoDate THEN existingExpiresAt ELSE at,
                            extension.n)]
    ELSE IF expiresAt.kind = "date"
    THEN [rejected |-> FALSE, set |-> TRUE, value |-> expiresAt.d]
    ELSE IF expiresAt.kind = "garbage"
    THEN [rejected |-> TRUE, set |-> FALSE, value |-> NoDate]
    ELSE [rejected |-> FALSE, set |-> FALSE, value |-> NoDate]

\* inviteCode.trim()
trim(code) == [code EXCEPT !.padded = FALSE]

\* data.inviteCodeId of the handler: null and a blank string clear the link, a
\* code is looked up as typed, trimmed.
patchInviteCode(inviteCode) ==
    IF inviteCode.kind = "undefined"
    THEN [rejected |-> FALSE, set |-> FALSE, value |-> NoInvite]
    ELSE IF inviteCode.kind = "null" \/ trim(inviteCode.code).text = ""
    THEN [rejected |-> FALSE, set |-> TRUE, value |-> NoInvite]
    ELSE IF findUniqueInviteCode(trim(inviteCode.code)) = NoInvite
    THEN [rejected |-> TRUE, set |-> FALSE, value |-> NoInvite]
    ELSE [rejected |-> FALSE, set |-> TRUE,
          value |-> findUniqueInviteCode(trim(inviteCode.code))]

\* The data object handed to prisma.subscription.update.
patchData(body, expiry, invite) ==
    LET columns ==
            (IF body.status.kind = "string" THEN {"status"} ELSE {})
                \cup (IF expiry.set THEN {"expiresAt"} ELSE {})
                \cup (IF invite.set THEN {"inviteCode"} ELSE {})
    IN  [f \in columns |->
            CASE f = "status" -> body.status.v
              [] f = "expiresAt" -> expiry.value
              [] f = "inviteCode" -> invite.value]

\* The arguments the handler passes to updateLicenseFromSubscription next to
\* subscriptionId, userEmail and licenseKey.
licenseUpdateParams(body, data) ==
    [status |-> body.status,
     expiresAt |-> IF "expiresAt" \in DOMAIN data
                   THEN [kind |-> "date", d |-> data.expiresAt]
                   ELSE [kind |-> "undefined", d |-> NoDate],
     addDays |-> body.addDays,
     maxRequests |-> body.maxRequests]

\* updateLicenseFromSubscription returns before any request when the client
\* is not configured or the subscription has no license key.
licenseUpdateSkipped(configured, licenseKey) ==
    ~configured \/ licenseKey \in {NoKey, ""}

BodyBase == {"subscriptionId", "userEmail", "licenseKey"}

\* Mutant: the four optional fields are always sent, null when omitted.
licenseUpdateBody_nullsForOmitted(subscriptionId, licenseKey, params) ==
    [f \in BodyBase \cup DOMAIN params |->
        CASE f = "subscriptionId" -> [kind |-> "id", n |-> subscriptionId]
          [] f = "userEmail" -> [kind |-> "string", v |-> "user@example.com"]
          [] f = "licenseKey" -> [kind |-> "string", v |-> licenseKey]
          [] OTHER -> IF params[f].kind = "undefined"
                      THEN [params[f] EXCEPT !.kind = "null"] ELSE params[f]]

\* The JSON body of POST /admin/license/update.
licenseUpdateBody(subscriptionId, licenseKey, params) ==
    [f \in BodyBase \cup {g \in DOMAIN params : params[g].kind # "undefined"} |->
        CASE f = "subscriptionId" -> [kind |-> "id", n |-> subscriptionId]
          [] f = "userEmail" -> [kind |-> "string", v |-> "user@example.com"]
          [] f = "licenseKey" -> [kind |-> "string", v |-> licenseKey]
          [] OTHER -> params[f]]

\* What becomes of one update request.
UpdateBehaviours == {"network_error", "http_error", "ok_unparsable", "ok"}

\* How updateLicenseFromSubscription ends once fetch has settled: a non-2xx
\* answer is logged and the function returns; a rejected fetch and a body
\* that is no JSON are caught and logged.
licenseUpdateOutcome(behaviour) == "resolved"

\* res.json / next(error) of the PATCH handler: the run is over, what it did
\* stays on record.
RespondPatch(code, message, calls, sent, sync, answer) ==
    /\ response' = [code |-> code, msg |-> message]
    /\ patch' = [IdlePatch EXCEPT !.calls = calls, !.sent = sent,
                                  !.sync = sync, !.answer = answer]

\* PATCH /api/admin/subscriptions/:id arrives: the body is validated, the
\* subscription and the invite code are read and the data object is built.
PatchSubscription(id, body) ==
    /\ patch.pc = "idle"
    /\ delivered < MaxPatches
    /\ delivered' = delivered + 1
    /\ IF ~atLeastOneField(body)
       THEN RespondPatch(400, "At least one field must be provided", 0, 0, "none", "none")
       ELSE IF id \notin DOMAIN subs
       THEN RespondPatch(404, "Subscription not found", 0, 0, "none", "none")
       ELSE LET existing == subs[id]
                expiry == patchExpiresAt(existing.expiresAt, body.expiresAt,
                                         body.addDays, now)
                invite == patchInviteCode(body.inviteCode)
                data == patchData(body, expiry, invite)
            IN  IF expiry.rejected
                THEN RespondPatch(400, "Invalid expiresAt date format", 0, 0, "none", "none")
                ELSE IF invite.rejected
                THEN RespondPatch(400, "Invite code not found", 0, 0, "none", "none")
                ELSE /\ patch' = [IdlePatch EXCEPT
                                     !.pc = "update", !.id = id,
                                     !.body = body,
                                     !.data = data,
                                     !.params = licenseUpdateParams(body, data)]
                     /\ response' = NoResponse
    /\ UNCHANGED <<now, invoices, subs, invites, authority, runs, hist, ipn>>

\* Mutant: the license update is attempted only when status or expiresAt is
\* written.
PatchApply_syncOnlyOnChange(dbOk, configured) ==
    /\ patch.pc = "update"
    /\ IF ~dbOk
       THEN /\ RespondPatch(500, "Internal server error", 0, 0, "none", "none")
            /\ UNCHANGED subs
       ELSE LET updated == update(subs[patch.id], patch.data)
            IN  /\ subs' = [subs EXCEPT ![patch.id] = updated]
                /\ IF DOMAIN patch.data \cap {"status", "expiresAt"} = {}
                   THEN RespondPatch(200, "updated", 0, 0, "none", "none")
                   ELSE IF licenseUpdateSkipped(configured, updated.licenseKey)
                   THEN RespondPatch(200, "updated", 1, 0, "skipped", "none")
                   ELSE /\ patch' = [patch EXCEPT
                               !.pc = "fetch", !.calls = 1, !.sent = 1,
                               !.request = licenseUpdateBody(patch.id,
                                               updated.licenseKey, patch.params)]
                        /\ UNCHANGED response
    /\ UNCHANGED <<now, invoices, invites, authority, runs, delivered, hist, ipn>>

\* prisma.subscription.update settles.  When it resolved the handler calls
\* updateLicenseFromSubscription, which returns at once (not configured, no
\* license key) or builds the request and awaits fetch.
PatchApply(dbOk, configured) ==
    /\ patch.pc = "update"
    /\ IF ~dbOk
       THEN /\ RespondPatch(500, "Internal server error", 0, 0, "none", "none")
            /\ UNCHANGED subs
       ELSE LET updated == update(subs[patch.id], patch.data)
            IN  /\ subs' = [subs EXCEPT ![patch.id] = updated]
                /\ IF licenseUpdateSkipped(configured, updated.licenseKey)
                   THEN RespondPatch(200, "updated", 1, 0, "skipped", "none")
                   ELSE /\ patch' = [patch EXCEPT
                               !.pc = "fetch", !.calls = 1, !.sent = 1,
                               !.request = licenseUpdateBody(patch.id,
                                               updated.licenseKey, patch.params)]
                        /\ UNCHANGED response
    /\ UNCHANGED <<now, invoices, invites, authority, runs, delivered, hist, ipn>>

\* Mutant: when the authority does not confirm the update, the local
\* mutation is undone and the admin is answered 500.
PatchFetch_rollsBack(behaviour) ==
    /\ patch.pc = "fetch"
    /\ IF behaviour = "ok"
       THEN /\ RespondPatch(200, "updated", patch.calls, patch.sent,
                            licenseUpdateOutcome(behaviour), behaviour)
            /\ UNCHANGED subs
       ELSE /\ RespondPatch(500, "Internal server error", patch.calls, patch.sent,
                            licenseUpdateOutcome(behaviour), behaviour)
            /\ subs' = [subs EXCEPT ![patch.id].status = "active"]
    /\ UNCHANGED <<now, invoices, invites, authority, runs, delivered, hist, ipn>>

\* fetch settles and updateLicenseFromSubscription ends; the handler, which
\* awaits it inside a try/catch of its own, answers with the updated
\* subscription.
PatchFetch(behaviour) ==
    /\ patch.pc = "fetch"
    /\ RespondPatch(200, "updated", patch.calls, patch.sent,
                    licenseUpdateOutcome(behaviour), behaviour)
    /\ UNCHANGED <<now, invoices, subs, invites, authority, runs, delivered, hist, ipn>>

\* The update request is sent and no answer ever comes: this fetch has no
\* signal or timer either.
PatchFetchHangs ==
    /\ patch.pc = "fetch"
    /\ patch' = [patch EXCEPT !.pc = "fetchPending"]
    /\ UNCHANGED <<now, invoices, subs, invites, authority, runs, response,
                   delivered, hist, ipn>>

\* One subscription as the webhooks and earlier admin edits leave it: without
\* an expiry, expired or running; without a license key, with an empty one,
\* with a key.
InitAdmin ==
    /\ now = MaxNow
    /\ invoices = [i \in {} |-> 0]
    /\ subs \in
         [SubIds ->
            [status : {"active"}, startsAt : {0},
             expiresAt : {NoDate, 0, MaxNow},
             licenseKey : {NoKey, "", "LK-A"},
             planCode : {"pro_monthly"}, inviteCode : {"alpha"}]]
    /\ invites =
         [c \in {"alpha"} |->
            [status |-> "ACTIVE", maxUses |-> NoLimit, usedCount |-> 0,
             expiresAt |-> NoDate]]
    /\ authority = [s \in SubIds |-> [startsAt |-> NoDate, expiresAt |-> NoDate]]
    /\ runs = [r \in Runs |-> IdleRun]
    /\ response = NoResponse
    /\ delivered = 0
    /\ hist = [i \in InvoiceIds |-> NoHistory]
    /\ patch = IdlePatch
    /\ ipn = NoCheck

\* Admin requests are handled one at a time.
NextAdmin ==
    \/ \E id \in SubIds \cup {None}, body \in PatchBodies : PatchSubscription(id, body)
    \/ \E dbOk \in BOOLEAN, configured \in BOOLEAN : PatchApply(dbOk, configured)
    \/ \E behaviour \in UpdateBehaviours : PatchFetch(behaviour)
    \/ PatchFetchHangs

SpecAdmin == InitAdmin /\ [][NextAdmin]_vars

\* ---------------------------------------------------------------- the update call
\* updateLicenseFromSubscription taken as a function of its parameters.
\* licenseKey?: string | null.
LicenseKeyInputs == {NoKey, "", "LK-A"}

\* expiresAt?: Date | null.  A Date object may hold no instant (its time
\* value is NaN), as new Date('garbage') does.
UpdateExpiresAtInputs ==
    {[kind |-> "undefined", d |-> NoDate], [kind |-> "null", d |-> NoDate],
     [kind |-> "invalid", d |-> NoDate]}
        \cup [kind : {"date"}, d : {0, MaxNow}]

LicenseUpdateInputs ==
    [status : {s \in StatusFieldInputs : s.kind # "number"},
     expiresAt : UpdateExpiresAtInputs,
     addDays : {a \in AddDaysInputs : a.kind # "string"},
     maxRequests : MaxRequestsInputs]

\* The entry log line evaluates expiresAt.toISOString() for every truthy
\* expiresAt, before the configuration test and outside the try block;
\* toISOString throws a RangeError on a Date that holds no instant.
entryLogThrows(params) == params.expiresAt.kind = "invalid"

\* The function runs up to its first await: it throws at the log line,
\* returns early, or sends the request.
LicenseUpdateCall(configured) ==
    /\ patch.pc = "called"
    /\ IF entryLogThrows(patch.params)
       THEN patch' = [patch EXCEPT !.pc = "idle", !.sync = "rejected"]
       ELSE IF licenseUpdateSkipped(configured, subs[patch.id].licenseKey)
       THEN patch' = [patch EXCEPT !.pc = "idle", !.sync = "skipped"]
       ELSE patch' = [patch EXCEPT
                         !.pc = "fetch", !.sent = 1,
                         !.request = licenseUpdateBody(patch.id,
                                         subs[patch.id].licenseKey, patch.params)]
    /\ UNCHANGED <<now, invoices, subs, invites, authority, runs, response,
                   delivered, hist, ipn>>

\* fetch settles and the function ends.
LicenseUpdateSettle(behaviour) ==
    /\ patch.pc = "fetch"
    /\ patch' = [patch EXCEPT !.pc = "idle",
                              !.sync = licenseUpdateOutcome(behaviour),
                              !.answer = behaviour]
    /\ UNCHANGED <<now, invoices, subs, invites, authority, runs, response,
                   delivered, hist, ipn>>

\* One call with parameters of the declared types.
InitLicenseUpdate ==
    /\ now = 0
    /\ invoices = [i \in {} |-> 0]
    /\ subs \in
         [SubIds ->
            [status : {"active"}, startsAt : {0}, expiresAt : {NoDate},
             licenseKey : LicenseKeyInputs,
             planCode : {"pro_monthly"}, inviteCode : {NoInvite}]]
    /\ invites = [c \in {} |-> 0]
    /\ authority = [s \in SubIds |-> [startsAt |-> NoDate, expiresAt |-> NoDate]]
    /\ runs = [r \in Runs |-> IdleRun]
    /\ response = NoResponse
    /\ delivered = 0
    /\ hist = [i \in InvoiceIds |-> NoHistory]
    /\ \E s \in SubIds, params \in LicenseUpdateInputs :
           patch = [IdlePatch EXCEPT !.pc = "called", !.id = s,
                                     !.params = params, !.calls = 1]
    /\ ipn = NoCheck

NextLicenseUpdate ==
    \/ \E configured \in BOOLEAN : LicenseUpdateCall(configured)
    \/ \E behaviour \in UpdateBehaviours : LicenseUpdateSettle(behaviour)
    \/ PatchFetchHangs

SpecLicenseUpdate == InitLicenseUpdate /\ [][NextLicenseUpdate]_vars

\* ================================================================ receipts
\* sendReceiptEmail(invoiceId), run by the admin resend-receipt endpoint.
\* The run's locals live in a handler slot: the invoice, the license key in
\* hand and the window of the subscription it loaded.

\* null of Invoice.receiptNumber.
NoReceiptNumber == 0

\* generateLicenseKey(): shadow-<8 hex digits>.
GeneratedKeys == {"shadow-a1b2c3d4"}

\* !licenseKey || licenseKey.trim() === ''
licenseKeyMissing(licenseKey) == licenseKey \in {NoKey, ""}

\* Where the function goes once the receipt number is settled.
routeAfterReceiptNumber(licenseKey) ==
    IF licenseKeyMissing(licenseKey) THEN "receiptSubscription" ELSE "receiptEmail"

\* The expiration handed to the license authority: the stored one, else the
\* start (now when unset) plus the plan's duration, else none.
receiptExpiration(planCode, startsAt, expiresAt, at) ==
    LET d == durationDays(planCode)
    IN  IF expiresAt # NoDate THEN expiresAt
        ELSE IF d # NoDuration /\ d # 0
        THEN addDays(IF startsAt # NoDate THEN startsAt ELSE at, d)
        ELSE NoDate

\* The function returns or throws: the run is over.
ReceiptEnds(r) == runs' = [runs EXCEPT ![r] = IdleRun]

\* The call arrives and the invoice is loaded with its subscription.  An
\* unknown invoice and one that is not paid throw, a receipt already sent
\* returns false.  A paid invoice always has paidAt, so only the receipt
\* number may be missing.
SendReceipt(r, i) ==
    /\ Quiescent
    /\ r = 1
    /\ delivered < MaxDeliveries
    /\ delivered' = delivered + 1
    /\ IF \/ i \notin DOMAIN invoices
          \/ invoices[i].status # "paid"
          \/ invoices[i].receiptSentAt # NoDate
       THEN UNCHANGED runs
       ELSE LET licenseKey == subs[invoices[i].subscriptionId].licenseKey
            IN  runs' = [runs EXCEPT ![r] =
                    [IdleRun EXCEPT
                        !.pc = IF invoices[i].receiptNumber = NoReceiptNumber
                               THEN "receiptNumber"
                               ELSE routeAfterReceiptNumber(licenseKey),
                        !.invoice = i,
                        !.licenseKey = licenseKey]]
    /\ UNCHANGED <<now, invoices, subs, invites, authority, response, hist, patch, ipn>>

\* generateReceiptNumber and updateInvoice({receiptNumber}).
ReceiptNumber(r) ==
    /\ runs[r].pc = "receiptNumber"
    /\ invoices' = [invoices EXCEPT ![runs[r].invoice] =
           update(@, [receiptNumber |-> 1])]
    /\ runs' = [runs EXCEPT ![r].pc = routeAfterReceiptNumber(runs[r].licenseKey)]
    /\ UNCHANGED <<now, subs, invites, authority, response, delivered, hist, patch, ipn>>

\* The license key is missing: a key is generated and the subscription is
\* loaded with its plan.
ReceiptSubscription(r, key) ==
    /\ runs[r].pc = "receiptSubscription"
    /\ LET subscription == subs[invoices[runs[r].invoice].subscriptionId]
       IN  runs' = [runs EXCEPT ![r] =
               [@ EXCEPT !.pc = "receiptPersistKey",
                         !.licenseKey = key,
                         !.expStartsAt = subscription.startsAt,
                         !.expExpiresAt = subscription.expiresAt]]
    /\ UNCHANGED <<now, invoices, subs, invites, authority, response, delivered,
                   hist, patch, ipn>>

\* updateSubscription(invoice.subscriptionId, {licenseKey}); the window to
\* hand to the authority is worked out of the subscription loaded before.
ReceiptPersistKey(r) ==
    /\ runs[r].pc = "receiptPersistKey"
    /\ LET s == invoices[runs[r].invoice].subscriptionId
       IN  /\ subs' = [subs EXCEPT ![s] = update(@, [licenseKey |-> runs[r].licenseKey])]
           /\ runs' = [runs EXCEPT ![r] =
                  [@ EXCEPT !.pc = "receiptSync",
                            !.computedAt = now,
                            !.expStartsAt = IF @ # NoDate THEN @ ELSE now,
                            !.expExpiresAt =
                                receiptExpiration(subs[s].planCode, runs[r].expStartsAt,
                                                  runs[r].expExpiresAt, now)]]
    /\ UNCHANGED <<now, invoices, invites, authority, response, delivered, hist, patch, ipn>>

\* createOrExtendLicense inside the function's try/catch: whatever becomes
\* of the request, the function goes on to the email.
ReceiptSync(r, behaviour) ==
    /\ runs[r].pc = "receiptSync"
    /\ LET s == invoices[runs[r].invoice].subscriptionId
       IN  authority' = [authority EXCEPT ![s] =
               IF behaviour \notin Received THEN @
               ELSE [startsAt |-> runs[r].expStartsAt,
                     expiresAt |-> runs[r].expExpiresAt]]
    /\ runs' = [runs EXCEPT ![r] =
           [@ EXCEPT !.pc = "receiptEmail",
                     !.license = IF createOrExtendLicense(behaviour, runs[r].licenseKey).threw
                                 THEN "threw" ELSE "ok"]]
    /\ UNCHANGED <<now, invoices, subs, invites, response, delivered, hist, patch, ipn>>

\* The request is sent and no answer ever comes.
ReceiptSyncHangs(r) ==
    /\ runs[r].pc = "receiptSync"
    /\ runs' = [runs EXCEPT ![r].pc = "licensePending"]
    /\ UNCHANGED <<now, invoices, subs, invites, authority, response, delivered,
                   hist, patch, ipn>>

\* sendEmail: when it rejects the function throws and receiptSentAt stays
\* unset.
ReceiptEmail(r, sent) ==
    /\ runs[r].pc = "receiptEmail"
    /\ IF sent
       THEN runs' = [runs EXCEPT ![r].pc = "receiptMarkSent"]
       ELSE ReceiptEnds(r)
    /\ UNCHANGED <<now, invoices, subs, invites, authority, response, delivered,
                   hist, patch, ipn>>

\* updateInvoice({receiptSentAt}); the function returns true.
ReceiptMarkSent(r) ==
    /\ runs[r].pc = "receiptMarkSent"
    /\ invoices' = [invoices EXCEPT ![runs[r].invoice] =
           update(@, [receiptSentAt |-> now])]
    /\ ReceiptEnds(r)
    /\ UNCHANGED <<now, subs, invites, authority, response, delivered, hist, patch, ipn>>

\* A storage call of the function rejects: the function throws.
ReceiptStorageSteps ==
    {"receiptNumber", "receiptSubscription", "receiptPersistKey", "receiptMarkSent"}

ReceiptStorageError(r) ==
    /\ runs[r].pc \in ReceiptStorageSteps
    /\ ReceiptEnds(r)
    /\ UNCHANGED <<now, invoices, subs, invites, authority, response, delivered,
                   hist, patch, ipn>>

\* The rows as create-subscription and the webhooks leave them: an invoice
\* still pending, or paid with its subscription active (with the key the
\* authority returned, '' when it returned none) or flagged for a failed
\* license call.
InitReceipt ==
    /\ now \in {0, MaxNow}
    /\ \E planCode \in PlanCodes, paid \in BOOLEAN, licensed \in BOOLEAN,
          key \in LicenseKeys \cup {""}, numbered \in BOOLEAN, sent \in BOOLEAN :
          /\ (sent => paid /\ numbered)
          /\ (numbered => paid)
          /\ (licensed => paid)
          /\ invoices =
               [i \in InvoiceIds |->
                  [subscriptionId |-> i,
                   status |-> IF paid THEN "paid" ELSE "pending",
                   paidAt |-> IF paid THEN 0 ELSE NoDate,
                   providerPaymentId |-> i,
                   receiptNumber |-> IF numbered THEN 1 ELSE NoReceiptNumber,
                   receiptSentAt |-> IF sent THEN 0 ELSE NoDate]]
          /\ subs =
               [s \in SubIds |->
                  [status |-> IF ~paid THEN "pending_payment"
                              ELSE IF licensed THEN "active"
                              ELSE "payment_received_but_license_failed",
                   startsAt |-> IF paid THEN 0 ELSE NoDate,
                   expiresAt |-> IF paid /\ durationDays(planCode) # NoDuration
                                 THEN addDays(0, durationDays(planCode)) ELSE NoDate,
                   licenseKey |-> IF licensed THEN key ELSE NoKey,
                   planCode |-> planCode,
                   inviteCode |-> "alpha"]]
    /\ invites =
         [c \in {"alpha"} |->
            [status |-> "ACTIVE", maxUses |-> NoLimit, usedCount |-> 0,
             expiresAt |-> NoDate]]
    /\ authority = [s \in SubIds |-> [startsAt |-> NoDate, expiresAt |-> NoDate]]
    /\ runs = [r \in Runs |-> IdleRun]
    /\ response = NoResponse
    /\ delivered = 0
    /\ hist = [i \in InvoiceIds |-> NoHistory]
    /\ patch = IdlePatch
    /\ ipn = NoCheck

NextReceipt ==
    \/ \E r \in Runs, i \in InvoiceIds \cup {None} : SendReceipt(r, i)
    \/ \E r \in Runs : ReceiptNumber(r)
    \/ \E r \in Runs, key \in GeneratedKeys : ReceiptSubscription(r, key)
    \/ \E r \in Runs : ReceiptPersistKey(r)
    \/ \E r \in Runs, behaviour \in AuthorityBehaviours : ReceiptSync(r, behaviour)
    \/ \E r \in Runs : ReceiptSyncHangs(r)
    \/ \E r \in Runs, sent \in BOOLEAN : ReceiptEmail(r, sent)
    \/ \E r \in Runs : ReceiptMarkSent(r)
    \/ \E r \in Runs : ReceiptStorageError(r)

SpecReceipt == InitReceipt /\ [][NextReceipt]_vars

\* ================================================================ webhook signature
\* verifyWebhookSignature taken as a function of the configured secret, the
\* x-nowpayments-sig header and the raw body.

\* config.nowpayments.ipnSecret, '' when the variable is not set.
Secrets == {"", "s1", "s2"}

\* Top-level keys, in the order Array.prototype.sort puts them (UTF-16 code
\* units: '_' sorts before the lower-case letters).
KeyOrder == <<"__proto__", "order_id", "payment_id">>
Keys == {KeyOrder[n] : n \in DOMAIN KeyOrder}
keyRank(key) == CHOOSE n \in DOMAIN KeyOrder : KeyOrder[n] = key

\* Number tokens as they stand in a raw body.
NumberTokens == {"1", "9007199254740992", "9007199254740993"}

\* JSON.parse of a number token yields the nearest double: 2^53 + 1 is not
\* a double and parses to 2^53.  A value is written as JSON.stringify
\* prints it.
parseNumber(token) ==
    IF token = "9007199254740993" THEN "9007199254740992" ELSE token

\* Raw bodies: no JSON at all, the JSON value null, a JSON number, or a JSON
\* object given as its members in the order they stand in the body (at most
\* two, with distinct keys).
Members == [key : Keys, token : NumberTokens]

ObjectBodies ==
    {<< >>} \cup {<<m>> : m \in Members}
        \cup {<<m, n>> : <<m, n>> \in {p \in Members \X Members : p[1].key # p[2].key}}

RawBodies ==
    {[kind |-> "malformed", members |-> << >>],
     [kind |-> "null", members |-> << >>],
     [kind |-> "number", members |-> << >>]}
        \cup [kind : {"object"}, members : ObjectBodies]

\* Object.keys(bodyObject).sort(): the own keys of the parsed body, sorted.
\* A number has no own keys.
sortedKeys(body) ==
    LET own == {body.members[n].key : n \in DOMAIN body.members}
    IN  IF own = {} THEN << >>
        ELSE [n \in 1..Cardinality(own) |->
                 CHOOSE key \in own :
                     Cardinality({other \in own : keyRank(other) < keyRank(key)}) = n - 1]

\* bodyObject[key] of the parsed body.
valueOf(body, key) ==
    LET n == CHOOSE m \in DOMAIN body.members : body.members[m].key = key
    IN  parseNumber(body.members[n].token)

\* sortedBody[key] = bodyObject[key] on a plain object makes an own property
\* for every key but "__proto__": that assignment runs the setter inherited
\* from Object.prototype, which ignores a number.
makesOwnProperty(key) == key # "__proto__"

\* JSON.stringify(sortedBody): the own properties in the order they were
\* made, each with its value.
sortedBodyString(body) ==
    LET keys == SelectSeq(sortedKeys(body), makesOwnProperty)
    IN  [n \in DOMAIN keys |-> [key |-> keys[n], value |-> valueOf(body, keys[n])]]

\* crypto.createHmac('sha512', secret).update(text).digest('hex'): distinct
\* inputs give distinct digests (collisions are left out).
hmac(secret, text) == [secret |-> secret, text |-> text, flipped |-> FALSE]

\* scripts/signNowpaymentsWebhook.js: the signature of a payload file.
sign(secret, payload) == hmac(secret, sortedBodyString(payload))

\* The header as received: absent, or a digest written in lower-case hex, in
\* upper case with blanks around it, cut short, with a character that is no
\* hex digit in it (same length), or with one hex digit changed.
SignatureForms == {"hex", "upper_padded", "truncated", "nonhex", "flipped"}

NoHeader == [kind |-> "absent", form |-> "hex", digest |-> hmac("", << >>)]

\* Buffer.from(signature.trim().toLowerCase(), 'hex') for a signature of the
\* digest's length.
decode(header) ==
    IF header.form = "flipped" THEN [header.digest EXCEPT !.flipped = TRUE]
    ELSE header.digest

\* Mutant: JSON.parse stands before the try block.
verifyWebhookSignature_parseOutsideTry(secret, header, body) ==
    IF secret = "" THEN "false"
    ELSE IF header.kind = "absent" THEN "false"
    ELSE IF body.kind = "malformed" THEN "throws"
    ELSE IF body.kind = "null" THEN "false"
    ELSE IF header.form = "truncated" THEN "false"
    ELSE IF header.form = "nonhex" THEN "false"
    ELSE IF decode(header) = hmac(secret, sortedBodyString(body)) THEN "true"
    ELSE "false"

\* verifyWebhookSignature.  JSON.parse of a malformed body and
\* Object.keys(null) throw inside the try block and the catch returns false;
\* a signature of another length, and one whose bytes are fewer because a
\* character is no hex digit, are turned down before timingSafeEqual.
verifyWebhookSignature(secret, header, body) ==
    IF secret = "" THEN "false"
    ELSE IF header.kind = "absent" THEN "false"
    ELSE IF body.kind = "malformed" THEN "false"
    ELSE IF body.kind = "null" THEN "false"
    ELSE IF header.form = "truncated" THEN "false"
    ELSE IF header.form = "nonhex" THEN "false"
    ELSE IF decode(header) = hmac(secret, sortedBodyString(body)) THEN "true"
    ELSE "false"

\* The handler verifies the delivery at hand.
Verify ==
    /\ ipn.pc = "received"
    /\ ipn' = [ipn EXCEPT !.pc = "verified",
                          !.result = verifyWebhookSignature(ipn.secret, ipn.header,
                                                            ipn.body)]
    /\ UNCHANGED <<now, invoices, subs, invites, authority, runs, response,
                   delivered, hist, patch>>

\* A delivery whose header is absent or carries, in some form, the signature
\* the script made of a payload with secret s1; the service is configured
\* with any secret or none; the body is any raw body.
InitVerify ==
    /\ now = 0
    /\ invoices = [i \in {} |-> 0]
    /\ subs = [s \in {} |-> 0]
    /\ invites = [c \in {} |-> 0]
    /\ authority = [s \in {} |-> 0]
    /\ runs = [r \in Runs |-> IdleRun]
    /\ response = NoResponse
    /\ delivered = 0
    /\ hist = [i \in {} |-> 0]
    /\ patch = IdlePatch
    /\ \E secret \in Secrets, body \in RawBodies, payload \in ObjectBodies,
          form \in SignatureForms, present \in BOOLEAN :
          ipn = [pc |-> "received",
                 secret |-> secret,
                 body |-> body,
                 signed |-> IF present THEN payload ELSE << >>,
                 header |-> IF present
                            THEN [kind |-> "string", form |-> form,
                                  digest |-> sign("s1", [kind |-> "object",
                                                         members |-> payload])]
                            ELSE NoHeader,
                 result |-> "none"]

NextVerify == Verify

SpecVerify == InitVerify /\ [][NextVerify]_vars

\* ================================================================ renewals
\* A Subscription activated on day 0 by its first Invoice (paid, license
\* issued) for which two further Invoices were opened since: renewals create
\* new Invoices of the same Subscription.
FirstInvoiceId == 1
RenewalInvoiceIds == {2, 3}

InitSecondInvoice ==
    /\ now = 0
    /\ invoices =
         [i \in {FirstInvoiceId} \cup RenewalInvoiceIds |->
            [subscriptionId |-> 1,
             status |-> IF i = FirstInvoiceId THEN "paid" ELSE "pending",
             paidAt |-> IF i = FirstInvoiceId THEN 0 ELSE NoDate,
             providerPaymentId |-> i]]
    /\ \E planCode \in PlanCodes :
         LET first == computeSubscriptionExpiration(planCode, NoDate, NoDate, 0)
         IN  /\ subs = [s \in SubIds |->
                    [status |-> "active", startsAt |-> first.startsAt,
                     expiresAt |-> first.expiresAt, licenseKey |-> "LK-A",
                     planCode |-> planCode, inviteCode |-> "alpha"]]
             /\ authority = [s \in SubIds |->
                    [startsAt |-> first.startsAt, expiresAt |-> first.expiresAt]]
    /\ invites =
         [c \in {"alpha"} |->
            [status |-> "ACTIVE", maxUses |-> NoLimit, usedCount |-> 0,
             expiresAt |-> NoDate]]
    /\ runs = [r \in Runs |-> IdleRun]
    /\ response = NoResponse
    /\ delivered = 0
    /\ hist = [i \in {FirstInvoiceId} \cup RenewalInvoiceIds |->
                 IF i = FirstInvoiceId
                 THEN [paid |-> 1, windows |-> 1, calls |-> 1, activations |-> 1,
                       otherStatus |-> FALSE, successAcked |-> TRUE]
                 ELSE NoHistory]
    /\ patch = IdlePatch
    /\ ipn = NoCheck

\* A verified success webhook for one of the renewal Invoices, naming it by
\* order_id or by payment_id only.
ArriveRenewal(r) ==
    \E i \in RenewalInvoiceIds, byOrderId \in BOOLEAN, ps \in SuccessStatuses :
        Deliver(r, TRUE,
                IF byOrderId THEN [ns |-> "invoice", n |-> i]
                ELSE [ns |-> "absent", n |-> 0],
                i, ps)

\* The renewal webhooks arrive one after the other.
NextSecondInvoice ==
    \/ \E r \in Runs : Quiescent /\ ArriveRenewal(r)
    \/ \E r \in Runs : StepSuccess(r)
    \/ Tick

SpecSecondInvoice == InitSecondInvoice /\ [][NextSecondInvoice]_vars

\* The renewal webhooks overlap, all within one day.
NextConcurrentRenewals ==
    \/ \E r \in Runs : ArriveRenewal(r)
    \/ \E r \in Runs : StepSuccess(r)

SpecConcurrentRenewals == InitSecondInvoice /\ [][NextConcurrentRenewals]_vars

\* ================================================================ expiration
\* The calculator taken as a function: any plan, any window a Subscription
\* row may hold (startsAt and expiresAt are written independently by the
\* webhook handler and by the admin route), any instant.
InitExpiration ==
    /\ now = 0
    /\ invoices = [i \in {} |-> 0]
    /\ subs \in
         [SubIds ->
            [status : {"pending_payment"}, startsAt : {NoDate} \cup Dates,
             expiresAt : {NoDate} \cup (0..(MaxNow + PlanDays)),
             licenseKey : {NoKey}, planCode : PlanInputs, inviteCode : {"alpha"}]]
    /\ invites =
         [c \in {"alpha"} |->
            [status |-> "ACTIVE", maxUses |-> NoLimit, usedCount |-> 0,
             expiresAt |-> NoDate]]
    /\ authority = [s \in SubIds |-> [startsAt |-> NoDate, expiresAt |-> NoDate]]
    /\ runs = [r \in Runs |-> IdleRun]
    /\ response = NoResponse
    /\ delivered = 0
    /\ hist = [i \in InvoiceIds |-> NoHistory]
    /\ patch = IdlePatch
    /\ ipn = NoCheck

\* computeSubscriptionExpiration is called on the row of subscription s; the
\* caller r keeps the instant of the call and the result in its locals.
ComputeExpiration(r, s) ==
    /\ LET expiration == computeSubscriptionExpiration(
                             subs[s].planCode, subs[s].startsAt,
                             subs[s].expiresAt, now)
       IN  runs' = [runs EXCEPT ![r] =
               [IdleRun EXCEPT !.computedAt = now,
                               !.expStartsAt = expiration.startsAt,
                               !.expExpiresAt = expiration.expiresAt]]
    /\ UNCHANGED <<now, invoices, subs, invites, authority, response, delivered, hist, patch,
                   ipn>>

NextExpiration ==
    \/ \E r \in Runs, s \in SubIds : ComputeExpiration(r, s)
    \/ Tick

SpecExpiration == InitExpiration /\ [][NextExpiration]_vars

\* ================================================================ claims
\* The invoice a run is about: the one its pending lookup finds, or the one
\* it has loaded.
Located(r) ==
    IF runs[r].pc = "lookupById" THEN getInvoiceByIdInternal(runs[r].orderId)
    ELSE IF runs[r].pc = "lookupByPaymentId"
    THEN getInvoiceByProviderPaymentId(runs[r].paymentId)
    ELSE runs[r].invoice

\* Run r takes the step.
Acts(r) == runs'[r] # runs[r]

\* Run r holds a success webhook and is about to load an invoice that is
\* already paid.
DuplicateDelivery(r) ==
    /\ runs[r].pc \in {"lookupById", "lookupByPaymentId"}
    /\ isSuccessful(runs[r].paymentStatus)
    /\ Located(r) # None
    /\ invoices[Located(r)].status = "paid"

AlreadyProcessed == [code |-> 200, msg |-> "Already processed"]

\* C1. Sequential duplicate delivery.  A success webhook that arrives for an
\* invoice already paid changes no Invoice, Subscription or InviteCode field,
\* sends nothing to the license authority and is answered 200 "Already
\* processed" (500 only when the storage read itself rejects); and as long as
\* only success webhooks were handled for an invoice, its status went to paid
\* at most once, its subscription went to active at most once and
\* createOrExtendLicense was invoked at most once, each exactly once when the
\* license call was made.
C1_SequentialDuplicateIsNoop ==
    [][ /\ \A r \in Runs :
              (Acts(r) /\ DuplicateDelivery(r)) =>
                  /\ UNCHANGED <<invoices, subs, invites, authority>>
                  /\ hist'[Located(r)].calls = hist[Located(r)].calls
                  /\ hist'[Located(r)].windows = hist[Located(r)].windows
                  /\ hist'[Located(r)].paid = hist[Located(r)].paid
                  /\ runs'[r].pc = "idle"
                  /\ response'.code # 500 => response' = AlreadyProcessed
        /\ \A i \in InvoiceIds :
              ~hist'[i].otherStatus =>
                  /\ hist'[i].paid <= 1
                  /\ hist'[i].activations <= 1
                  /\ hist'[i].calls <= 1
                  /\ hist'[i].calls = 1 =>
                         hist'[i].paid = 1 /\ hist'[i].activations = 1
      ]_vars

\* C1 witness: after one full processing, a second success delivery was
\* answered "Already processed".
C1_Witness ==
    \E i \in InvoiceIds :
        /\ response = AlreadyProcessed
        /\ delivered >= 2
        /\ ~hist[i].otherStatus
        /\ hist[i].paid = 1 /\ hist[i].calls = 1 /\ hist[i].activations = 1
        /\ invoices[i].status = "paid"
        /\ subs[invoices[i].subscriptionId].status = "active"
        /\ subs[invoices[i].subscriptionId].licenseKey = "LK-A"

\* C2. Concurrent duplicate delivery.  With only success webhooks handled for
\* an invoice, however their runs interleave, createOrExtendLicense is invoked
\* at most once and the subscription's window is written at most once.
C2_ConcurrentDuplicateEffectsOnce ==
    \A i \in InvoiceIds :
        ~hist[i].otherStatus => hist[i].calls <= 1 /\ hist[i].windows <= 1

\* C3. Invoice status is terminal: once paid, expired or canceled, no step
\* changes it.
C3_InvoiceStatusTerminal ==
    [][ \A i \in InvoiceIds :
            invoices[i].status \in {"paid", "expired", "canceled"} =>
                invoices'[i].status = invoices[i].status ]_vars

\* C4. Exactly-once effect per invoice: over any sequence of deliveries for an
\* invoice, createOrExtendLicense is invoked at most once on its behalf and
\* the subscription's startsAt/expiresAt are written at most once.
C4_ExactlyOncePerInvoice ==
    \A i \in InvoiceIds : hist[i].calls <= 1 /\ hist[i].windows <= 1

\* C5. A run handling a final-failure webhook (failed, expired, refunded)
\* never changes a Subscription field and never reaches the license authority,
\* in any of its steps and whatever the state of the invoice and subscription.
C5_FinalFailureLeavesSubscription ==
    [][ \A r \in Runs :
            ( /\ Acts(r)
              /\ \/ isFinalFailure(runs[r].paymentStatus)
                 \/ isFinalFailure(runs'[r].paymentStatus) ) =>
                /\ UNCHANGED <<subs, authority>>
                /\ \A i \in InvoiceIds :
                       /\ hist'[i].calls = hist[i].calls
                       /\ hist'[i].windows = hist[i].windows ]_vars

\* C5 witness: a final-failure webhook was handled for the paid invoice of an
\* active, licensed subscription.
C5_Witness ==
    \E i \in InvoiceIds :
        /\ response = [code |-> 200, msg |-> "Payment failed"]
        /\ invoices[i].status = "canceled"
        /\ hist[i].paid = 1
        /\ subs[invoices[i].subscriptionId].status = "active"
        /\ subs[invoices[i].subscriptionId].licenseKey = "LK-A"

\* C6. First success webhook for a pending invoice of a pending_payment
\* subscription on a plan of d days, the license authority answering: when
\* the run answers, the invoice is paid with paidAt set, the subscription is
\* active with startsAt = the instant of the computation and expiresAt d days
\* later, exactly one createOrExtendLicense call was made, with that window,
\* and the key it returned is stored on the subscription.
C6_FirstSuccessActivates ==
    [][ \A r \in Runs :
            LET i == runs[r].invoice
                s == invoices[i].subscriptionId
                d == durationDays(subs[s].planCode)
                t == runs[r].computedAt
            IN  ( /\ runs[r].pc = "storeLicenseKey"
                  /\ runs'[r].pc = "idle"
                  /\ runs[r].invStatus = "pending"
                  /\ runs[r].subStatus = "pending_payment"
                  /\ d # NoDuration ) =>
                    /\ response' = [code |-> 200, msg |-> "ok"]
                    /\ invoices'[i].status = "paid"
                    /\ invoices'[i].paidAt \in 0..t
                    /\ t \in 0..now
                    /\ subs'[s].status = "active"
                    /\ subs'[s].startsAt = t
                    /\ subs'[s].expiresAt = t + d
                    /\ hist'[i].calls = 1
                    /\ authority'[s] = [startsAt |-> t, expiresAt |-> t + d]
                    /\ runs[r].license = "ok"
                    /\ subs'[s].licenseKey = runs[r].licenseKey ]_vars

\* C6 witness: the first delivery was a success webhook and went through.
C6_Witness ==
    \E i \in InvoiceIds :
        LET s == invoices[i].subscriptionId
        IN  /\ response = [code |-> 200, msg |-> "ok"]
            /\ delivered = 1
            /\ invoices[i].status = "paid" /\ invoices[i].paidAt = 0
            /\ subs[s].status = "active" /\ subs[s].licenseKey = "LK-A"
            /\ subs[s].startsAt = 1 /\ subs[s].expiresAt = 1 + PlanDays
            /\ authority[s] = [startsAt |-> 1, expiresAt |-> 1 + PlanDays]

\* C7. License issuance failure.  Once createOrExtendLicense has thrown, the
\* run is in the license catch with its invoice paid; no step of the run
\* writes the subscription's licenseKey; and when the catch's write goes
\* through, the subscription is payment_received_but_license_failed, the
\* invoice is still paid and the webhook is answered 200 (500 only when that
\* write itself rejects).
C7_LicenseFailureIsFlagged ==
    [][ \A r \in Runs :
            LET i == runs[r].invoice
                s == invoices[i].subscriptionId
            IN  /\ runs'[r].license = "threw" =>
                    /\ runs'[r].pc = "markLicenseFailed"
                    /\ invoices'[runs'[r].invoice].status = "paid"
                /\ (runs[r].license = "threw" /\ Acts(r)) =>
                    /\ runs'[r].pc = "idle"
                    /\ invoices'[i].status = "paid"
                    /\ subs'[s].licenseKey = subs[s].licenseKey
                    /\ \/ /\ response' = [code |-> 200, msg |-> "ok"]
                          /\ subs'[s].status = "payment_received_but_license_failed"
                       \/ /\ response'.code = 500
                          /\ UNCHANGED subs
                /\ (InFlight(r) /\ Acts(r) /\ runs[r].license # "ok") =>
                    \A q \in SubIds : subs'[q].licenseKey = subs[q].licenseKey ]_vars

\* C7 witness: the first success delivery met a license failure.
C7_Witness ==
    \E i \in InvoiceIds :
        LET s == invoices[i].subscriptionId
        IN  /\ response = [code |-> 200, msg |-> "ok"]
            /\ delivered = 1
            /\ hist[i].calls = 1
            /\ invoices[i].status = "paid"
            /\ subs[s].status = "payment_received_but_license_failed"
            /\ subs[s].licenseKey = NoKey
            /\ authority[s].startsAt # NoDate

\* C8. Eventual reconciliation under retries.  The gateway stops redelivering
\* once a success webhook is answered 200; from then on, with no run in
\* flight, the invoice has been paid and its subscription has left
\* pending_payment.
C8_RetriesReconcile ==
    \A i \in InvoiceIds :
        (Quiescent /\ hist[i].successAcked) =>
            /\ hist[i].paid >= 1
            /\ subs[invoices[i].subscriptionId].status # "pending_payment"

\* C9. No automatic retry of license issuance.  A success webhook redelivered
\* for the paid invoice of a subscription in payment_received_but_license_failed
\* ends at the gate: the subscription keeps every field, nothing is sent to
\* the license authority and no createOrExtendLicense call is made.
C9_NoLicenseRetry ==
    [][ \A r \in Runs :
            ( /\ Acts(r)
              /\ DuplicateDelivery(r)
              /\ subs[invoices[Located(r)].subscriptionId].status
                     = "payment_received_but_license_failed" ) =>
                /\ UNCHANGED <<subs, authority, invoices>>
                /\ hist'[Located(r)].calls = hist[Located(r)].calls
                /\ runs'[r].pc = "idle" ]_vars

\* C9 witness: a success webhook was redelivered after a license failure.
C9_Witness ==
    \E i \in InvoiceIds :
        /\ response = AlreadyProcessed
        /\ hist[i].calls = 1
        /\ ~hist[i].otherStatus
        /\ invoices[i].status = "paid"
        /\ subs[invoices[i].subscriptionId].status
               = "payment_received_but_license_failed"

\* C10. Invite-code consumption.  With no run in flight, the usedCount of an
\* invite code is the number of subscriptions linked to it that a success
\* webhook has activated.
C10_InviteUsedOnFirstActivation ==
    Quiescent =>
        \A c \in DOMAIN invites :
            invites[c].usedCount =
                Cardinality({i \in InvoiceIds :
                    /\ subs[invoices[i].subscriptionId].inviteCode = c
                    /\ hist[i].activations >= 1})

tables == <<invoices, subs, invites, authority>>

InternalError == [code |-> 500, msg |-> "Internal server error"]

\* C13. Signature failure.  A delivery whose signature check fails is
\* answered 401 in the step in which it arrives and starts no handler run: no
\* Invoice, Subscription or InviteCode field changes, nothing is sent to the
\* license authority, and every run in flight belongs to a verified delivery.
C13_BadSignatureRejected ==
    [][ /\ \A r \in Runs : runs'[r].pc # "idle" => runs'[r].verified
        /\ delivered' # delivered =>
               \/ /\ \E r \in Runs : ~InFlight(r) /\ runs'[r].pc # "idle"
                  /\ UNCHANGED <<tables, hist>>
               \/ /\ response' = [code |-> 401, msg |-> "Invalid signature"]
                  /\ UNCHANGED <<tables, hist, runs>>
        /\ response'.code = 401 /\ response' # response =>
               delivered' # delivered /\ UNCHANGED <<tables, hist, runs>>
      ]_vars

\* C13 witness: an unverified delivery was rejected after an activation.
C13_Witness ==
    \E i \in InvoiceIds :
        /\ response = [code |-> 401, msg |-> "Invalid signature"]
        /\ delivered >= 2
        /\ invoices[i].status = "paid"
        /\ subs[invoices[i].subscriptionId].status = "active"
        /\ hist[i].calls = 1

\* C14. Intermediate status.  No step of a run whose payment_status is
\* neither a success nor a final failure changes an Invoice, Subscription or
\* InviteCode field or reaches the license authority; the run ends at the
\* lookup and is answered 200 (500 only when the storage read rejects).
C14_IntermediateIsAcknowledged ==
    [][ \A r \in Runs :
            ( /\ Acts(r) /\ InFlight(r)
              /\ runs[r].paymentStatus \in IntermediateStatuses ) =>
                /\ UNCHANGED tables
                /\ \A i \in InvoiceIds :
                       /\ hist'[i].calls = hist[i].calls
                       /\ hist'[i].windows = hist[i].windows
                       /\ hist'[i].paid = hist[i].paid
                /\ runs'[r].pc \in {"idle", "lookupByPaymentId"}
                /\ runs'[r].pc = "idle" =>
                       response' \in {[code |-> 200, msg |-> "Status"],
                                      [code |-> 200, msg |-> "Invoice not found"],
                                      InternalError} ]_vars

\* C14 witness: an intermediate status was acknowledged for a paid invoice.
C14_Witness ==
    \E i \in InvoiceIds :
        /\ response = [code |-> 200, msg |-> "Status"]
        /\ invoices[i].status = "paid"
        /\ hist[i].otherStatus
        /\ subs[invoices[i].subscriptionId].status = "active"

\* No invoice carries the order_id or the payment_id of run r's payload.
NoInvoiceFor(r) ==
    /\ runs[r].pc \in {"lookupById", "lookupByPaymentId"}
    /\ runs[r].orderId.ns = "invoice" => runs[r].orderId.n \notin DOMAIN invoices
    /\ \A i \in DOMAIN invoices :
           invoices[i].providerPaymentId # runs[r].paymentId

\* C15. Invoice not found.  A run whose payload matches no invoice by
\* order_id nor by payment_id changes no stored state, whatever its
\* payment_status, and is answered 200 "Invoice not found" (500 only when the
\* storage read rejects).
C15_UnknownInvoiceIsAcknowledged ==
    [][ \A r \in Runs :
            (Acts(r) /\ NoInvoiceFor(r)) =>
                /\ UNCHANGED <<tables, hist>>
                /\ runs'[r].pc \in {"idle", "lookupByPaymentId"}
                /\ runs'[r].pc = "idle" =>
                       response' \in {[code |-> 200, msg |-> "Invoice not found"],
                                      InternalError} ]_vars

\* C15 witness: a success webhook with a foreign payment id was acknowledged
\* while the invoice stayed pending.
C15_Witness ==
    \E i \in InvoiceIds :
        /\ response = [code |-> 200, msg |-> "Invoice not found"]
        /\ delivered = 1
        /\ invoices[i].status = "pending"
        /\ subs[invoices[i].subscriptionId].status = "pending_payment"

\* C16. Response codes.  A run of a verified delivery ends with 200, for
\* every business outcome (invoice not found, intermediate status, final
\* failure, already processed, success, license failure), or with 500 when a
\* storage call rejected, in which case that step changed no stored state;
\* 401 is only ever the answer to an arriving delivery that starts no run.
C16_ResponseCodes ==
    [][ /\ \A r \in Runs :
               (InFlight(r) /\ runs'[r].pc = "idle") =>
                   \/ /\ response'.code = 200
                      /\ response'.msg \in
                             {"Invoice not found", "Status", "Payment failed",
                              "Already processed", "ok"}
                   \/ /\ response' = InternalError
                      /\ runs[r].pc \in StorageSteps
                      /\ UNCHANGED <<tables, hist>>
        /\ response'.code \in {0, 200, 401, 500}
        /\ response'.code = 401 =>
               \A r \in Runs : runs'[r] = runs[r]
      ]_vars

\* C16 witness: a license failure was acknowledged with 200 on a delivery
\* that followed another one.
C16_Witness ==
    \E i \in InvoiceIds :
        /\ response = [code |-> 200, msg |-> "ok"]
        /\ delivered = 2
        /\ hist[i].calls = 1
        /\ subs[invoices[i].subscriptionId].status
               = "payment_received_but_license_failed"

\* C17. The license authority cannot stall the acknowledgement: every handler
\* run in flight has a step to take (the awaited call answers, rejects or
\* times out).
C17_LicenseCallCannotStall ==
    \A r \in Runs : InFlight(r) => ENABLED Step(r)

\* C18. Final failure.  A final-failure webhook for a located invoice goes to
\* the status write, and when that write goes through the invoice is expired
\* for payment_status "expired" and canceled for "failed" and "refunded".
C18_FinalFailureStatus ==
    [][ \A r \in Runs :
            /\ ( /\ Acts(r)
                 /\ runs[r].pc \in {"lookupById", "lookupByPaymentId"}
                 /\ runs[r].paymentStatus \in FailureStatuses
                 /\ Located(r) # None
                 /\ response' # InternalError ) =>
                   /\ runs'[r].pc = "markFailed"
                   /\ runs'[r].invoice = Located(r)
            /\ (Acts(r) /\ runs[r].pc = "markFailed") =>
                   /\ runs[r].paymentStatus \in FailureStatuses
                   /\ runs'[r].pc = "idle"
                   /\ \/ /\ response' = [code |-> 200, msg |-> "Payment failed"]
                         /\ invoices'[runs[r].invoice].status =
                                IF runs[r].paymentStatus = "expired"
                                THEN "expired" ELSE "canceled"
                      \/ response' = InternalError /\ UNCHANGED invoices ]_vars

\* C18 witness: an "expired" webhook expired the pending invoice.
C18_Witness ==
    \E i \in InvoiceIds :
        /\ response = [code |-> 200, msg |-> "Payment failed"]
        /\ invoices[i].status = "expired"
        /\ hist[i].paid = 0
        /\ subs[invoices[i].subscriptionId].status = "pending_payment"

\* What the invite row of a typed code is found to be, read off the table.
rowOf(code) == invites[code.text]
codeKnown(code) == code.text # "" /\ code.text \in DOMAIN invites
codeInactive(code) == rowOf(code).status # "ACTIVE"
codeExpired(code) == rowOf(code).expiresAt # NoDate /\ rowOf(code).expiresAt < now
codeExhausted(code) ==
    rowOf(code).maxUses # NoLimit /\ rowOf(code).usedCount >= rowOf(code).maxUses

\* C19. Validation precedence.  A validation of a typed code that reaches the
\* table reports NOT_FOUND when the normalized code is not stored, else
\* NOT_ACTIVE when its status is not ACTIVE, else EXPIRED when its expiresAt
\* is set and past, else LIMIT_REACHED when maxUses is set and usedCount has
\* reached it, and accepts the code only when none applies; an ACTIVE code
\* both expired and exhausted reports EXPIRED.
C19_ValidationPrecedence ==
    [][ \A code \in InviteCodeInputs :
            (ValidateInvite(code, TRUE) /\ ~isEmptyString(code)) =>
                /\ response'.msg = "NOT_FOUND" <=> ~codeKnown(code)
                /\ response'.msg = "NOT_ACTIVE" <=>
                       codeKnown(code) /\ codeInactive(code)
                /\ response'.msg = "EXPIRED" <=>
                       codeKnown(code) /\ ~codeInactive(code) /\ codeExpired(code)
                /\ response'.msg = "LIMIT_REACHED" <=>
                       /\ codeKnown(code) /\ ~codeInactive(code)
                       /\ ~codeExpired(code) /\ codeExhausted(code)
                /\ response' = [code |-> 200, msg |-> "valid"] <=>
                       /\ codeKnown(code) /\ ~codeInactive(code)
                       /\ ~codeExpired(code) /\ ~codeExhausted(code)
                /\ response'.code \in {200, 400} ]_vars

\* C19 witness: an ACTIVE code both expired and exhausted was reported
\* EXPIRED.
C19_Witness ==
    /\ response = [code |-> 400, msg |-> "EXPIRED"]
    /\ invites["alpha"].status = "ACTIVE"
    /\ invites["alpha"].expiresAt # NoDate /\ invites["alpha"].expiresAt < now
    /\ invites["alpha"].maxUses # NoLimit
    /\ invites["alpha"].usedCount >= invites["alpha"].maxUses

\* The answers of the validation route.
ValidationAnswers ==
    {"valid", "NOT_FOUND", "NOT_ACTIVE", "EXPIRED", "LIMIT_REACHED",
     "Invite code is required", "Internal server error"}

\* C20. Validation is read-only: a step that answers a validation request,
\* accepted or rejected, changes no invite code (usedCount included), no
\* invoice, no subscription and nothing at the license authority.
C20_ValidationIsReadOnly ==
    [][ ( /\ delivered' = delivered + 1
          /\ runs' = runs
          /\ response'.msg \in ValidationAnswers ) =>
            UNCHANGED <<invites, invoices, subs, authority, hist>> ]_vars

\* C20 witness: a code was validated twice in a row after a subscription was
\* created with it, and its usedCount is what it was.
C20_Witness ==
    /\ response = [code |-> 200, msg |-> "valid"]
    /\ delivered = 3
    /\ DOMAIN subs # {}
    /\ \A i \in DOMAIN invoices : invoices[i].status = "pending"
    /\ invites["alpha"].usedCount = 0

\* What makes a create-subscription request invalid, read off the request and
\* the invite table.
inviteUsable(code) ==
    /\ codeKnown(code)
    /\ ~codeInactive(code) /\ ~codeExpired(code) /\ ~codeExhausted(code)

invalidSubscriptionRequest(form, code, planCode) ==
    \/ ~form.required
    \/ ~form.email
    \/ form.redirect = "ftp://x"
    \/ planCode \notin PlanCodes
    \/ isEmptyString(code)
    \/ ~inviteUsable(code)

plusDuration(date, d) == IF d = NoDuration THEN NoDate ELSE date + d

referenceExpiration(d, currentStartsAt, currentExpiresAt, at) ==
    IF currentStartsAt = NoDate
    THEN [startsAt |-> at, expiresAt |-> plusDuration(at, d)]
    ELSE IF currentExpiresAt # NoDate /\ currentExpiresAt > at
    THEN [startsAt |-> currentStartsAt,
          expiresAt |-> plusDuration(currentExpiresAt, d)]
    ELSE [startsAt |-> at, expiresAt |-> plusDuration(at, d)]

\* C22. The expiration calculator equals the three-case reference for every
\* input: whatever the plan, the stored window and the instant of the call,
\* the result a caller holds is (1) startsAt = now and expiresAt = now +
\* durationDays when startsAt was unset, (2) startsAt kept and expiresAt =
\* the stored expiresAt + durationDays when that one was still ahead, (3)
\* startsAt = now and expiresAt = now + durationDays otherwise; expiresAt is
\* unset only for a plan without durationDays.
C22_ExpirationMatchesReference ==
    \A r \in Runs :
        runs[r].computedAt # NoDate =>
            \A s \in SubIds :
                [startsAt |-> runs[r].expStartsAt,
                 expiresAt |-> runs[r].expExpiresAt]
                    = referenceExpiration(durationDays(subs[s].planCode),
                                          subs[s].startsAt, subs[s].expiresAt,
                                          runs[r].computedAt)

\* C22 witness: a renewal before the lapse was stacked on the stored expiry.
C22_Witness ==
    \E r \in Runs, s \in SubIds :
        /\ runs[r].computedAt = 1
        /\ subs[s].planCode = "pro_monthly"
        /\ subs[s].startsAt = 0 /\ subs[s].expiresAt = 2
        /\ runs[r].expStartsAt = 0
        /\ runs[r].expExpiresAt = 2 + PlanDays

\* C23. Through webhook reconciliation alone, a Subscription's expiresAt,
\* once set, never moves to an earlier instant: on a plan with durationDays
\* set, every step leaves expiresAt where it was or moves it later.
C23_ExpiresAtNeverDecreases ==
    [][ \A s \in DOMAIN subs :
            ( /\ subs[s].expiresAt # NoDate
              /\ durationDays(subs[s].planCode) # NoDuration ) =>
                subs'[s].expiresAt >= subs[s].expiresAt ]_vars

\* C24. createOrExtendLicense throws on every failure, a 2xx answer without a
\* license key included: a run that is past the call without a throw holds a
\* license key that is neither empty nor missing.
C24_NeverReturnsEmptyKey ==
    \A r \in Runs :
        runs[r].license = "ok" => runs[r].licenseKey \notin {"", NoKey}

\* The subscription has no license key the update could name.
noLicenseKey(s) == subs[s].licenseKey \in {NoKey, ""}

\* C25. updateLicenseFromSubscription never throws or rejects.  For every
\* input and whatever becomes of its request (network error, non-2xx answer,
\* 2xx answer that is no JSON, 2xx answer) the call resolves, and when the
\* client is not configured or there is no license key it resolves without
\* having sent a request.
C25_LicenseUpdateNeverThrows ==
    /\ patch.sync # "rejected"
    /\ patch.sync = "skipped" => patch.sent = 0
    /\ (patch.sent > 0 /\ patch.id \in DOMAIN subs) => ~noLicenseKey(patch.id)
    /\ patch.answer # "none" => patch.sync = "resolved"

\* C25 witness: the call was handed a Date that holds no instant and
\* rejected before any request was sent.
C25_Witness ==
    /\ patch.sync = "rejected"
    /\ patch.params.expiresAt.kind = "invalid"
    /\ patch.sent = 0

\* C26. An admin mutation whose local update succeeds is answered 200 with
\* the updated Subscription whatever becomes of the license update (client
\* not configured, network error, non-2xx answer), and the row keeps the
\* mutated values: the step that ends the run after the local update changes
\* no Subscription, and the only answer other than 200 a run gets after its
\* body passed validation is the 500 of a local update that failed.
C26_AdminMutationSurvivesAuthority ==
    [][ /\ \A behaviour \in UpdateBehaviours :
               PatchFetch(behaviour) =>
                   /\ response' = [code |-> 200, msg |-> "updated"]
                   /\ UNCHANGED subs
                   /\ \A f \in DOMAIN patch.data :
                          subs'[patch.id][f] = patch.data[f]
        /\ \A configured \in BOOLEAN :
               PatchApply(TRUE, configured) =>
                   /\ \A f \in DOMAIN patch.data :
                          subs'[patch.id][f] = patch.data[f]
                   /\ patch'.pc = "idle" =>
                          response' = [code |-> 200, msg |-> "updated"]
                   /\ ~configured => patch'.pc = "idle"
        /\ (patch.pc \in {"update", "fetch"} /\ patch'.pc = "idle"
                /\ response'.code # 200) =>
               /\ patch.pc = "update"
               /\ response' = InternalError
               /\ UNCHANGED subs
      ]_vars

\* C26 witness: the status was set to paused, the authority answered the
\* update with a non-2xx status and the admin was answered 200.
C26_Witness ==
    /\ response = [code |-> 200, msg |-> "updated"]
    /\ patch.answer = "http_error"
    /\ \A s \in DOMAIN subs : subs[s].status = "paused"

\* The optional fields of the update body.
BodyOptional == {"status", "expiresAt", "addDays", "maxRequests"}

\* C27. The body of an update request always holds subscriptionId, userEmail
\* and licenseKey, and holds status, expiresAt, addDays, maxRequests exactly
\* when the caller passed that argument (not undefined), with the value
\* passed: an omitted argument is never sent, as null or otherwise.
C27_BodyHoldsProvidedFields ==
    patch.pc \in {"fetch", "fetchPending"} =>
        /\ BodyBase \subseteq DOMAIN patch.request
        /\ DOMAIN patch.request \subseteq BodyBase \cup BodyOptional
        /\ patch.request["licenseKey"].v \notin {NoKey, ""}
        /\ \A f \in BodyOptional :
               /\ f \in DOMAIN patch.request <=> patch.params[f].kind # "undefined"
               /\ f \in DOMAIN patch.request => patch.request[f] = patch.params[f]

\* C27 witness: an update is in flight for a call that passed status and
\* maxRequests (null) and neither expiresAt nor addDays.
C27_Witness ==
    /\ patch.pc = "fetch"
    /\ patch.params.status.kind = "string"
    /\ patch.params.maxRequests.kind = "null"
    /\ patch.params.expiresAt.kind = "undefined"
    /\ patch.params.addDays.kind = "undefined"
    /\ DOMAIN patch.request = BodyBase \cup {"status", "maxRequests"}

\* C28. The license update sent for an admin PATCH carries, next to
\* subscriptionId, userEmail and licenseKey, only fields the admin request
\* provided.
C28_UpdateCarriesOnlyRequestFields ==
    patch.pc \in {"fetch", "fetchPending"} =>
        DOMAIN patch.request \subseteq BodyBase \cup provided(patch.body)

\* C28 witness: a request with only addDays was sent on with addDays and
\* with the expiry computed from it.
C28_Witness ==
    /\ patch.pc = "fetch"
    /\ provided(patch.body) = {"addDays"}
    /\ DOMAIN patch.request = BodyBase \cup {"expiresAt", "addDays"}

\* C29. Admin mutation ordering.  A request turned down by validation (400,
\* 404) changes no Subscription and calls updateLicenseFromSubscription not
\* at all; for a request that passes, the call is made in the step in which
\* the local update resolved, after the row was written, exactly once, and
\* whatever the update wrote (nothing included).
C29_LocalUpdateThenOneLicenseCall ==
    [][ /\ (delivered' # delivered /\ response'.code \in {400, 404}) =>
               /\ UNCHANGED subs
               /\ patch'.pc = "idle"
               /\ patch'.calls = 0 /\ patch'.sent = 0
        /\ patch'.pc = "update" => patch'.calls = 0 /\ UNCHANGED subs
        /\ \A configured \in BOOLEAN :
               PatchApply(TRUE, configured) =>
                   /\ subs'[patch.id] = update(subs[patch.id], patch.data)
                   /\ patch.calls = 0
                   /\ patch'.calls = 1
        /\ subs' # subs => patch.pc = "update" /\ patch'.calls = 1
        /\ patch'.calls # patch.calls =>
               \/ patch.pc = "update" /\ patch'.calls = 1
               \/ patch.pc = "idle" /\ patch'.calls = 0
        /\ (patch.pc = "fetch" /\ patch'.pc = "idle") => patch'.calls = 1
      ]_vars

\* C29 witness: a request that only cleared the invite code was applied and
\* the license update was called once for it.
C29_Witness ==
    /\ response = [code |-> 200, msg |-> "updated"]
    /\ patch.calls = 1
    /\ patch.sync = "resolved"
    /\ \A s \in DOMAIN subs :
           /\ subs[s].inviteCode = NoInvite
           /\ subs[s].status = "active"

\* The instant addDays is counted from.
extensionBase(s) ==
    IF subs[s].expiresAt # NoDate THEN subs[s].expiresAt ELSE now

\* C30. Admin expiry update.  With a non-zero addDays the expiry to write is
\* the stored expiresAt (now when unset) plus addDays days, whatever
\* expiresAt the request carries; with addDays absent a valid expiresAt is
\* written as given and an unparsable one is never accepted: the request is
\* answered 400 and the Subscription is unchanged.  The local update writes
\* exactly that expiry.
C30_AdminExpiry ==
    [][ /\ patch'.pc = "update" =>
               LET body == patch'.body
                   data == patch'.data
               IN  /\ (body.addDays.kind = "number" /\ body.addDays.n # 0) =>
                          /\ "expiresAt" \in DOMAIN data
                          /\ data.expiresAt = extensionBase(patch'.id) + body.addDays.n
                   /\ (body.addDays.kind = "undefined" /\ body.expiresAt.kind = "date") =>
                          /\ "expiresAt" \in DOMAIN data
                          /\ data.expiresAt = body.expiresAt.d
                   /\ body.addDays.kind = "undefined" =>
                          body.expiresAt.kind # "garbage"
                   /\ "expiresAt" \in DOMAIN data =>
                          \/ body.addDays.kind = "number"
                          \/ body.expiresAt.kind = "date"
        /\ response' = [code |-> 400, msg |-> "Invalid expiresAt date format"] =>
               UNCHANGED subs /\ patch'.pc = "idle"
        /\ \A configured \in BOOLEAN :
               PatchApply(TRUE, configured) =>
                   subs'[patch.id].expiresAt =
                       IF "expiresAt" \in DOMAIN patch.data
                       THEN patch.data.expiresAt ELSE subs[patch.id].expiresAt
      ]_vars

\* C30 witness: a request with addDays 1 and an explicit expiresAt of 0 is
\* about to write the stored expiry plus one day.
C30_Witness ==
    /\ patch.pc = "update"
    /\ patch.body.addDays = [kind |-> "number", n |-> 1]
    /\ patch.body.expiresAt = [kind |-> "date", d |-> 0]
    /\ subs[patch.id].expiresAt = MaxNow
    /\ patch.data.expiresAt = MaxNow + 1

\* C31. The admin subscription mutation is turned down for want of a field
\* only when none of status, expiresAt, addDays, inviteCode, maxRequests is
\* supplied, and then nothing changes; a request that supplies any of the
\* five, maxRequests alone included, is not answered with that error.
C31_AcceptedWithAnyOfFiveFields ==
    [][ \A id \in SubIds, body \in PatchBodies :
            PatchSubscription(id, body) =>
                /\ provided(body) # {} =>
                       response' # [code |-> 400,
                                    msg |-> "At least one field must be provided"]
                /\ provided(body) = {} =>
                       /\ response' = [code |-> 400,
                                       msg |-> "At least one field must be provided"]
                       /\ UNCHANGED subs
                       /\ patch'.calls = 0
      ]_vars

\* C32. Admin invite relink.  An inviteCode string is looked up by its
\* normalized form (trimmed, lower-cased): every case or whitespace variant
\* of a stored code links the Subscription to that code; a code that is not
\* stored is answered with an error, the Subscription unchanged and no
\* license update sent; null and a blank string clear the link.
C32_InviteRelinkByNormalizedCode ==
    [][ /\ \A id \in SubIds, body \in PatchBodies :
               ( /\ PatchSubscription(id, body)
                 /\ response' # [code |-> 400, msg |-> "Invalid expiresAt date format"] ) =>
                   LET code == normalize(body.inviteCode.code)
                       links == /\ patch'.pc = "update"
                                /\ "inviteCode" \in DOMAIN patch'.data
                   IN  /\ ( /\ body.inviteCode.kind = "string"
                            /\ code.text # ""
                            /\ code.text \in DOMAIN invites ) =>
                              links /\ patch'.data["inviteCode"] = code.text
                       /\ ( /\ body.inviteCode.kind = "string"
                            /\ code.text # ""
                            /\ code.text \notin DOMAIN invites ) =>
                              /\ response' = [code |-> 400, msg |-> "Invite code not found"]
                              /\ patch'.pc = "idle"
                              /\ patch'.calls = 0 /\ patch'.sent = 0
                              /\ UNCHANGED subs
                       /\ ( \/ body.inviteCode.kind = "null"
                            \/ body.inviteCode.kind = "string" /\ code.text = "" ) =>
                              links /\ patch'.data["inviteCode"] = NoInvite
        /\ \A configured \in BOOLEAN :
               ( /\ PatchApply(TRUE, configured)
                 /\ "inviteCode" \in DOMAIN patch.data ) =>
                   subs'[patch.id].inviteCode = patch.data["inviteCode"]
      ]_vars

\* The steps in which the webhook reconciler writes a Subscription.
ReconcilerWrites == {"updateSubscription", "storeLicenseKey", "markLicenseFailed"}

\* C33. After creation a Subscription's status, expiresAt and licenseKey are
\* written only by the webhook reconciler and the admin subscription
\* mutation: every step that changes one of the three on an existing row is
\* a writing step of a reconciler run or the local update of an admin PATCH
\* of that Subscription.
C33_OnlyReconcilerAndAdminWrite ==
    [][ \A s \in DOMAIN subs :
            ( /\ s \in DOMAIN subs'
              /\ \/ subs'[s].status # subs[s].status
                 \/ subs'[s].expiresAt # subs[s].expiresAt
                 \/ subs'[s].licenseKey # subs[s].licenseKey ) =>
                \/ \E r \in Runs : /\ runs[r].pc \in ReconcilerWrites
                                   /\ runs'[r] # runs[r]
                \/ patch.pc = "update" /\ patch.id = s
      ]_vars

\* C33 witness: the receipt sender stored a key it generated in a
\* Subscription that had none.
C33_Witness ==
    \E s \in DOMAIN subs, r \in Runs :
        /\ runs[r].pc = "receiptSync"
        /\ subs[s].licenseKey \in GeneratedKeys
        /\ subs[s].status = "payment_received_but_license_failed"

\* C34. End-to-end correlation.  The order_id of a webhook is the
\* subscription id create-subscription handed to the gateway: a verified
\* success webhook carrying the id of a Subscription that has an Invoice, and
\* a payment_id the service never stored, locates that Invoice by its
\* order_id; the lookup does not fall through to the payment_id and the
\* delivery is not acknowledged as "Invoice not found".
C34_WebhookFindsInvoiceBySubscriptionId ==
    [][ \A r \in Runs :
            ( /\ runs[r].pc = "lookupById"
              /\ runs[r].verified
              /\ runs[r].orderId.ns = "subscription"
              /\ \E i \in DOMAIN invoices :
                     invoices[i].subscriptionId = runs[r].orderId.n
              /\ runs[r].paymentId = ForeignPaymentId
              /\ isSuccessful(runs[r].paymentStatus)
              /\ runs'[r] # runs[r]
              /\ response' # InternalError ) =>
                /\ runs'[r].pc # "lookupByPaymentId"
                /\ response'.msg # "Invoice not found"
      ]_vars

\* C35. verify returns false and never throws when the secret is missing,
\* the header is missing, the body is no JSON, or the signature provided
\* differs from the computed one in length or in bytes; it returns true only
\* when the signature provided is the HMAC of the canonical body under the
\* configured secret.
C35_VerifyIsTotalAndExact ==
    ipn.pc = "verified" =>
        /\ ipn.result \in {"true", "false"}
        /\ ipn.secret = "" => ipn.result = "false"
        /\ ipn.header.kind = "absent" => ipn.result = "false"
        /\ ipn.body.kind = "malformed" => ipn.result = "false"
        /\ ipn.header.form \in {"truncated", "nonhex", "flipped"} =>
               ipn.result = "false"
        /\ ipn.result = "true" =>
               /\ ipn.header.kind = "string"
               /\ ipn.body.kind \in {"object", "number"}
               /\ ipn.header.digest = hmac(ipn.secret, sortedBodyString(ipn.body))

\* C35 witness: a malformed body under a well-formed signature was turned
\* down.
C35_Witness ==
    /\ ipn.pc = "verified"
    /\ ipn.body.kind = "malformed"
    /\ ipn.secret = "s1"
    /\ ipn.header.kind = "string" /\ ipn.header.form = "hex"
    /\ ipn.result = "false"

\* C36. A signature made by the signing script over the key-sorted
\* serialization of a payload with secret s1 verifies whatever the order of
\* the top-level keys in the body delivered; with another secret
\* configured, or with any top-level value of the body changed, verify
\* returns false.
C36_CanonicalSignature ==
    LET delivered_ == {ipn.body.members[n] : n \in DOMAIN ipn.body.members}
        signed_ == {ipn.signed[n] : n \in DOMAIN ipn.signed}
    IN  (/\ ipn.pc = "verified"
         /\ ipn.body.kind = "object"
         /\ ipn.header.kind = "string"
         /\ ipn.header.form = "hex") =>
            /\ (ipn.secret = "s1" /\ delivered_ = signed_) => ipn.result = "true"
            /\ ipn.secret # "s1" => ipn.result = "false"
            /\ (/\ {m.key : m \in delivered_} = {m.key : m \in signed_}
                /\ delivered_ # signed_)
                   => ipn.result = "false"

\* C36 witness: the body delivered carries payment_id 9007199254740992, the
\* payload signed carried 9007199254740993, and the signature verified.
C36_Witness ==
    /\ ipn.pc = "verified"
    /\ ipn.secret = "s1"
    /\ ipn.header.kind = "string" /\ ipn.header.form = "hex"
    /\ ipn.signed = <<[key |-> "payment_id", token |-> "9007199254740993"]>>
    /\ ipn.body = [kind |-> "object",
                   members |-> <<[key |-> "payment_id", token |-> "9007199254740992"]>>]
    /\ ipn.result = "true"

\* C37. In every state another request can observe, a Subscription the
\* webhook reconciler has set active carries a non-empty licenseKey issued
\* by the license authority: active is never visible before the license
\* call has succeeded, and an answer without a key never leaves an active
\* Subscription with an empty licenseKey.
C37_ActiveOnlyWithIssuedKey ==
    \A s \in SubIds :
        subs[s].status = "active" => subs[s].licenseKey \in LicenseKeys

\* C37 witness: the webhook has been answered and the Subscription is
\* active with the empty licenseKey of an answer without a key.
C37_Witness ==
    /\ Quiescent
    /\ response = [code |-> 200, msg |-> "ok"]
    /\ \E s \in SubIds : subs[s].status = "active" /\ subs[s].licenseKey = ""

\* C38. A renewal is not stopped by the idempotency gates.  A run handling
\* a verified success webhook for a new pending Invoice of a Subscription
\* that is active and has an earlier paid Invoice has marked that Invoice
\* paid when it reads the Subscription, is not answered "Already processed"
\* there, writes an expiresAt one plan duration after the current one (after
\* now when the current one has passed; none for a plan without duration),
\* and calls createOrExtend once.
C38_RenewalPassesTheGates ==
    [][ \A r \in Runs :
          LET i == runs[r].invoice
              s == invoices[i].subscriptionId
              d == durationDays(subs[s].planCode)
              renewal ==
                  /\ runs[r].invStatus = "pending"
                  /\ subs[s].status = "active"
                  /\ \E j \in DOMAIN invoices \ {i} :
                         /\ invoices[j].subscriptionId = s
                         /\ invoices[j].status = "paid"
          IN  /\ (/\ runs[r].pc = "getSubscription"
                  /\ renewal
                  /\ runs'[r] # runs[r]
                  /\ response'.code # 500) =>
                     /\ invoices[i].status = "paid"
                     /\ response' # [code |-> 200, msg |-> "Already processed"]
                     /\ runs'[r].pc = "updateSubscription"
                     /\ runs'[r].expExpiresAt =
                            IF d = NoDuration THEN NoDate
                            ELSE IF subs[s].expiresAt > now THEN subs[s].expiresAt + d
                            ELSE now + d
              /\ (/\ runs[r].pc = "updateSubscription"
                  /\ renewal
                  /\ runs'[r] # runs[r]
                  /\ response'.code # 500) =>
                     /\ subs'[s].status = "active"
                     /\ subs'[s].expiresAt = runs[r].expExpiresAt
                     /\ runs'[r].pc = "createOrExtend"
              /\ (/\ runs[r].pc = "createOrExtend"
                  /\ runs[r].invStatus = "pending"
                  /\ runs'[r] # runs[r]) =>
                     /\ hist[i].calls = 0
                     /\ hist'[i].calls = 1 ]_vars

\* C38 witness: the second Invoice is paid after the first, the license
\* authority was called once for it, the webhook was answered ok and the
\* Subscription, still active, expires one plan duration later than before.
C38_Witness ==
    /\ invoices[1].status = "paid"
    /\ invoices[2].status = "paid"
    /\ invoices[3].status = "pending"
    /\ hist[2].calls = 1
    /\ response = [code |-> 200, msg |-> "ok"]
    /\ subs[1].status = "active"
    /\ subs[1].planCode = "pro_monthly"
    /\ subs[1].expiresAt = PlanDays + PlanDays

====
